---- MODULE Spec2Model ----
(***************************************************************************)
(* Submission judging pipeline of CodeForge: the rate limiter hook         *)
(* (src/src/hooks/useRateLimit.ts), the execution service                  *)
(* (src/src/services/execution/ExecutionStrategy.ts) and the Run / Submit  *)
(* handlers of the problem editor page (src/unnamed/part_005).             *)
(*                                                                         *)
(* Strings are sequences of one-character strings.  A JavaScript null or   *)
(* undefined number is written 0 where the code only tests it for          *)
(* truthiness (cooldownUntil, waitTime); a null string is <<>> where every *)
(* real value is nonempty (lastCodeHash).                                  *)
(***************************************************************************)
EXTENDS Integers, Sequences, FiniteSets, TLC

VARIABLES
    now,            \* Date.now()
    ticks,          \* number of clock steps taken (bounds the run)
    state,          \* useRateLimit: RateLimitState
    lastCodeHash,   \* useRateLimit: lastCodeHash.current
    rateLimitCheck, \* result of the latest checkRateLimit call
    checkedCode,    \* the code given to the latest checkRateLimit call
    recordCalls,    \* recordAttempt calls since the latest checkRateLimit call
    submitted,      \* the hook on its own: allowed checks, [at, recorded, cooldown], oldest first
    problem,        \* page: the loaded Problem
    code,           \* page: the editor content
    isRunning,      \* page: the running flag
    consoleOutput,  \* page: the console transcript, a sequence of lines
    consoleError,   \* page: the console error text
    toast,          \* the latest toast shown
    isInCooldown,   \* useRateLimit: isInCooldown as of the latest render
    handler,        \* the handler clicked latest: "none", "run" or "submit"
    pc,             \* the await that handler is suspended at, "idle" when it has returned
    idx,            \* handleSubmit: index of the test case of the current iteration
    passedCount,    \* handleSubmit: passedCount
    actualRaw,      \* handleSubmit (SQL): actualRaw while expRes is awaited
    executed,       \* requests sent since the latest click, in order
    perCaseLog,     \* handleSubmit: the test cases judged since the latest click, in order
    received,       \* awaited execute and runSql calls that have settled since the latest click
    strategies,     \* ExecutionService: strategies
    currentStrategy,\* ExecutionService: currentStrategy (0 is null)
    probing,        \* selectBestStrategy called by execute: strategy whose isAvailable is awaited
    probes,         \* isAvailable answers received by that selectBestStrategy call, in order
    selecting,      \* selectBestStrategy called directly: strategy whose isAvailable is awaited
    request,        \* strategy: the ExecutionRequest given to execute
    apiKey,         \* Judge0Strategy: apiKey
    called,         \* strategy: the method called latest, "none" before any call
    awaiting,       \* strategy: that call is suspended at its fetch
    fetchCalls,     \* strategy: fetch calls made by that call
    fetched,        \* strategy: what that fetch settled on
    returned,       \* strategy: what that call returned
    database,       \* SQL engine: the database instance of the latest runSql call
    sqlRuns,        \* SQL engine: the runSql calls completed, [args, out], oldest first
    compared        \* checker: the latest compare call, its arguments and its result

limiterVars ==
    <<state, lastCodeHash, rateLimitCheck, checkedCode, recordCalls, submitted>>
pageVars ==
    <<problem, code, isRunning, consoleOutput, consoleError, toast, isInCooldown,
      handler, pc, idx, passedCount, actualRaw, executed, perCaseLog, received>>
serviceVars == <<strategies, currentStrategy, probing, probes, selecting>>
strategyVars == <<request, apiKey, called, awaiting, fetchCalls, fetched, returned>>
sqlVars == <<database, sqlRuns>>
checkerVars == <<compared>>
vars == <<now, ticks, limiterVars, pageVars, serviceVars, strategyVars, sqlVars, checkerVars>>

----------------------------------------------------------------------------
(* Bounds of the model *)

MaxTicks == 3

(* The clock steps the model takes, in milliseconds *)
TickSteps == {1, 60000}

(* The editor contents the model submits.  "Aa" and "BB" are distinct     *)
(* strings with the same hashCode; "zzzzzz" overflows 32 bits.             *)
Codes ==
    { <<"A", "a">>, <<"B", "B">>, <<"z", "z", "z", "z", "z", "z">> }

----------------------------------------------------------------------------
(* useRateLimit.ts: DEFAULT_CONFIG *)

maxAttempts == 2
windowMs == 60000
cooldownMs == 60000

----------------------------------------------------------------------------
(* useRateLimit.ts: hashCode *)

(* String.prototype.charCodeAt for the characters the model uses *)
charCodeAt(c) ==
    CASE c = "A" -> 65
      [] c = "B" -> 66
      [] c = "a" -> 97
      [] c = "z" -> 122
      [] c = "6" -> 54
      [] c = "e" -> 101
      [] c = "r" -> 114
      [] c = "C" -> 67
      [] c = "D" -> 68
      [] c = "I" -> 73
      [] c = "N" -> 78
      [] c = "S" -> 83
      [] c = "X" -> 88
      [] c = "U+03BB" -> 955   \* the one character GREEK SMALL LETTER LAMDA

(* hash = ((hash << 5) - hash) + char; hash = hash & hash                  *)
(* on a 32-bit value held as two 16-bit halves <<hi, lo>>: the result is   *)
(* (31 * hash + char) modulo 2^32.                                         *)
HashStep(h, ch) ==
    LET lo == 31 * h[2] + ch
        hi == 31 * h[1] + (lo \div 65536)
    IN  <<hi % 65536, lo % 65536>>

RECURSIVE HashLoop(_, _, _)
HashLoop(str, i, h) ==
    IF i > Len(str) THEN h
    ELSE HashLoop(str, i + 1, HashStep(h, charCodeAt(str[i])))

(* the signed 32-bit integer held in <<hi, lo>> *)
ToInt32(h) ==
    IF h[1] >= 32768 THEN (h[1] - 65536) * 65536 + h[2]
    ELSE h[1] * 65536 + h[2]

Digits36 ==
    << "0", "1", "2", "3", "4", "5", "6", "7", "8", "9", "a", "b",
       "c", "d", "e", "f", "g", "h", "i", "j", "k", "l", "m", "n",
       "o", "p", "q", "r", "s", "t", "u", "v", "w", "x", "y", "z" >>

RECURSIVE NatToString36(_)
NatToString36(n) ==
    IF n < 36 THEN <<Digits36[n + 1]>>
    ELSE NatToString36(n \div 36) \o <<Digits36[(n % 36) + 1]>>

(* Number.prototype.toString(36) *)
ToString36(n) ==
    IF n < 0 THEN <<"-">> \o NatToString36(0 - n) ELSE NatToString36(n)

hashCode(str) == ToString36(ToInt32(HashLoop(str, 1, <<0, 0>>)))

----------------------------------------------------------------------------
(* useRateLimit.ts: checkRateLimit, recordAttempt *)

(* Math.ceil(ms / 1000) for ms > 0 *)
CeilSeconds(ms) == (ms + 999) \div 1000

Allowed == [allowed |-> TRUE, message |-> "", waitTime |-> 0]

(* checkRateLimit admitting one attempt more: > for >= *)
checkRateLimit_OffByOne(st, last, str, t) ==
    IF st.cooldownUntil # 0 /\ t < st.cooldownUntil
    THEN [ result |-> [ allowed |-> FALSE, message |-> "Rate limited",
                        waitTime |-> CeilSeconds(st.cooldownUntil - t) ],
           state |-> st ]
    ELSE IF last = hashCode(str)
    THEN [ result |-> [ allowed |-> FALSE, message |-> "Please modify your code",
                        waitTime |-> 0 ],
           state |-> st ]
    ELSE IF t - st.windowStart > windowMs
    THEN [ result |-> Allowed,
           state |-> [attempts |-> 0, windowStart |-> t, cooldownUntil |-> 0] ]
    ELSE IF st.attempts > maxAttempts
    THEN [ result |-> [ allowed |-> FALSE, message |-> "Too many submissions",
                        waitTime |-> CeilSeconds(cooldownMs) ],
           state |-> [st EXCEPT !.cooldownUntil = t + cooldownMs] ]
    ELSE [ result |-> Allowed, state |-> st ]

(* checkRateLimit testing the window before the duplicate *)
checkRateLimit_WindowFirst(st, last, str, t) ==
    IF st.cooldownUntil # 0 /\ t < st.cooldownUntil
    THEN [ result |-> [ allowed |-> FALSE, message |-> "Rate limited",
                        waitTime |-> CeilSeconds(st.cooldownUntil - t) ],
           state |-> st ]
    ELSE IF t - st.windowStart > windowMs
    THEN [ result |-> Allowed,
           state |-> [attempts |-> 0, windowStart |-> t, cooldownUntil |-> 0] ]
    ELSE IF last = hashCode(str)
    THEN [ result |-> [ allowed |-> FALSE, message |-> "Please modify your code",
                        waitTime |-> 0 ],
           state |-> st ]
    ELSE IF st.attempts >= maxAttempts
    THEN [ result |-> [ allowed |-> FALSE, message |-> "Too many submissions",
                        waitTime |-> CeilSeconds(cooldownMs) ],
           state |-> [st EXCEPT !.cooldownUntil = t + cooldownMs] ]
    ELSE [ result |-> Allowed, state |-> st ]

(* checkRateLimit restarting an expired window without clearing attempts *)
checkRateLimit_KeepsAttempts(st, last, str, t) ==
    IF st.cooldownUntil # 0 /\ t < st.cooldownUntil
    THEN [ result |-> [allowed |-> FALSE, message |-> "Rate limited",
                       waitTime |-> CeilSeconds(st.cooldownUntil - t)],
           state |-> st ]
    ELSE IF last = hashCode(str)
    THEN [ result |-> [allowed |-> FALSE, message |-> "Please modify your code",
                       waitTime |-> 0],
           state |-> st ]
    ELSE IF t - st.windowStart > windowMs
    THEN [ result |-> Allowed,
           state |-> [st EXCEPT !.windowStart = t, !.cooldownUntil = 0] ]
    ELSE IF st.attempts >= maxAttempts
    THEN [ result |-> [allowed |-> FALSE, message |-> "Too many submissions",
                       waitTime |-> CeilSeconds(cooldownMs)],
           state |-> [st EXCEPT !.cooldownUntil = t + cooldownMs] ]
    ELSE [ result |-> Allowed, state |-> st ]

(* checkRateLimit rounding the remaining cooldown down *)
checkRateLimit_FloorWait(st, last, str, t) ==
    IF st.cooldownUntil # 0 /\ t < st.cooldownUntil
    THEN [ result |-> [allowed |-> FALSE, message |-> "Rate limited",
                       waitTime |-> (st.cooldownUntil - t) \div 1000],
           state |-> st ]
    ELSE IF last = hashCode(str)
    THEN [ result |-> [allowed |-> FALSE, message |-> "Please modify your code",
                       waitTime |-> 0],
           state |-> st ]
    ELSE IF t - st.windowStart > windowMs
    THEN [ result |-> Allowed,
           state |-> [attempts |-> 0, windowStart |-> t, cooldownUntil |-> 0] ]
    ELSE IF st.attempts >= maxAttempts
    THEN [ result |-> [allowed |-> FALSE, message |-> "Too many submissions",
                       waitTime |-> CeilSeconds(cooldownMs)],
           state |-> [st EXCEPT !.cooldownUntil = t + cooldownMs] ]
    ELSE [ result |-> Allowed, state |-> st ]

(* checkRateLimit with the cooldown lasting through cooldownUntil *)
checkRateLimit_CooldownInclusive(st, last, str, t) ==
    IF st.cooldownUntil # 0 /\ t <= st.cooldownUntil
    THEN [ result |-> [ allowed |-> FALSE, message |-> "Rate limited",
                        waitTime |-> CeilSeconds(st.cooldownUntil - t) ],
           state |-> st ]
    ELSE IF last = hashCode(str)
    THEN [ result |-> [ allowed |-> FALSE, message |-> "Please modify your code",
                        waitTime |-> 0 ],
           state |-> st ]
    ELSE IF t - st.windowStart > windowMs
    THEN [ result |-> Allowed,
           state |-> [attempts |-> 0, windowStart |-> t, cooldownUntil |-> 0] ]
    ELSE IF st.attempts >= maxAttempts
    THEN [ result |-> [ allowed |-> FALSE, message |-> "Too many submissions",
                        waitTime |-> CeilSeconds(cooldownMs) ],
           state |-> [st EXCEPT !.cooldownUntil = t + cooldownMs] ]
    ELSE [ result |-> Allowed, state |-> st ]

(* checkRateLimit counting the check it allows as an attempt *)
checkRateLimit_CountsChecks(st, last, str, t) ==
    IF st.cooldownUntil # 0 /\ t < st.cooldownUntil
    THEN [ result |-> [ allowed |-> FALSE, message |-> "Rate limited",
                        waitTime |-> CeilSeconds(st.cooldownUntil - t) ],
           state |-> st ]
    ELSE IF last = hashCode(str)
    THEN [ result |-> [ allowed |-> FALSE, message |-> "Please modify your code",
                        waitTime |-> 0 ],
           state |-> st ]
    ELSE IF t - st.windowStart > windowMs
    THEN [ result |-> Allowed,
           state |-> [attempts |-> 1, windowStart |-> t, cooldownUntil |-> 0] ]
    ELSE IF st.attempts >= maxAttempts
    THEN [ result |-> [ allowed |-> FALSE, message |-> "Too many submissions",
                        waitTime |-> CeilSeconds(cooldownMs) ],
           state |-> [st EXCEPT !.cooldownUntil = t + cooldownMs] ]
    ELSE [ result |-> Allowed, state |-> [st EXCEPT !.attempts = @ + 1] ]

(* checkRateLimit(str) at time t in state st with lastCodeHash.current =  *)
(* last: the returned value and the state after its setState calls.        *)
checkRateLimit(st, last, str, t) ==
    IF st.cooldownUntil # 0 /\ t < st.cooldownUntil
    THEN [ result |-> [ allowed |-> FALSE, message |-> "Rate limited",
                        waitTime |-> CeilSeconds(st.cooldownUntil - t) ],
           state |-> st ]
    ELSE IF last = hashCode(str)
    THEN [ result |-> [ allowed |-> FALSE, message |-> "Please modify your code",
                        waitTime |-> 0 ],
           state |-> st ]
    ELSE IF t - st.windowStart > windowMs
    THEN [ result |-> Allowed,
           state |-> [attempts |-> 0, windowStart |-> t, cooldownUntil |-> 0] ]
    ELSE IF st.attempts >= maxAttempts
    THEN [ result |-> [ allowed |-> FALSE, message |-> "Too many submissions",
                        waitTime |-> CeilSeconds(cooldownMs) ],
           state |-> [st EXCEPT !.cooldownUntil = t + cooldownMs] ]
    ELSE [ result |-> Allowed, state |-> st ]

(* recordAttempt(str): the state and lastCodeHash.current after the call *)
(* recordAttempt storing the fingerprint without counting the attempt *)
recordAttempt_NoCount(st, str) ==
    [ state |-> st, lastCodeHash |-> hashCode(str) ]

recordAttempt(st, str) ==
    [ state |-> [st EXCEPT !.attempts = st.attempts + 1],
      lastCodeHash |-> hashCode(str) ]

----------------------------------------------------------------------------
(* The clock *)

Tick ==
    /\ ticks < MaxTicks
    /\ \E d \in TickSteps : now' = now + d
    /\ ticks' = ticks + 1
    /\ UNCHANGED <<limiterVars, pageVars, serviceVars, strategyVars, sqlVars, checkerVars>>

----------------------------------------------------------------------------
(* JavaScript values                                                       *)
(*                                                                         *)
(* A JavaScript value is a record tagged with its type, so that a response *)
(* body can hold any JSON value and a field can be missing.                *)

Undefined == [t |-> "undefined"]
Null == [t |-> "null"]
Num(n) == [t |-> "number", n |-> n]
Str(s) == [t |-> "string", s |-> s]
Obj(fields) == [t |-> "object", fields |-> fields]

----------------------------------------------------------------------------
(* Strings *)

Whitespace == {" ", "\n"}

(* String.prototype.trim *)
RECURSIVE trim(_)
trim(s) ==
    IF s = <<>> THEN s
    ELSE IF Head(s) \in Whitespace THEN trim(Tail(s))
    ELSE IF s[Len(s)] \in Whitespace THEN trim(SubSeq(s, 1, Len(s) - 1))
    ELSE s

(* String.prototype.toLowerCase for the characters the model uses *)
toLowerCase(s) ==
    [ i \in 1..Len(s) |->
        CASE s[i] = "A" -> "a"
          [] s[i] = "B" -> "b"
          [] OTHER -> s[i] ]

(* String.prototype.split(/\s+/): cur is the token being read *)
RECURSIVE splitWs(_, _)
splitWs(s, cur) ==
    IF s = <<>> THEN <<cur>>
    ELSE IF Head(s) \in Whitespace
    THEN IF Len(s) > 1 /\ s[2] \in Whitespace
         THEN splitWs(Tail(s), cur)
         ELSE <<cur>> \o splitWs(Tail(s), <<>>)
    ELSE splitWs(Tail(s), Append(cur, Head(s)))

----------------------------------------------------------------------------
(* part_005: the checker of handleSubmit *)

norm(p, s) == IF p.checker_case_insensitive THEN toLowerCase(s) ELSE s

(* Number(token) for a token of digits, ".", "+", "-" and the letters a    *)
(* and A: the empty token is 0; a decimal literal with an optional sign is *)
(* its value; anything else is NaN.  A value is an integer counting units  *)
(* of 10^-FractionDigits, which is exact for literals of at most           *)
(* FractionDigits decimals.                                                *)
FractionDigits == 7

DecimalDigits == {"0", "1", "2", "3", "4", "5", "6", "7", "8", "9"}

DigitValue(c) ==
    CASE c = "0" -> 0 [] c = "1" -> 1 [] c = "2" -> 2 [] c = "3" -> 3
      [] c = "4" -> 4 [] c = "5" -> 5 [] c = "6" -> 6 [] c = "7" -> 7
      [] c = "8" -> 8 [] c = "9" -> 9

RECURSIVE Pow10(_)
Pow10(n) == IF n = 0 THEN 1 ELSE 10 * Pow10(n - 1)

RECURSIVE DigitsValue(_)
DigitsValue(d) ==
    IF d = << >> THEN 0
    ELSE 10 * DigitsValue(SubSeq(d, 1, Len(d) - 1)) + DigitValue(d[Len(d)])

NaN == [finite |-> FALSE, v |-> 0]

Number(token) ==
    IF token = << >> THEN [finite |-> TRUE, v |-> 0]
    ELSE
    LET signed == token[1] \in {"+", "-"}
        body == IF signed THEN Tail(token) ELSE token
        dots == { i \in 1..Len(body) : body[i] = "." }
        literal == /\ \A i \in 1..Len(body) : body[i] \in DecimalDigits \cup {"."}
                   /\ Cardinality(dots) <= 1
                   /\ \E i \in 1..Len(body) : body[i] \in DecimalDigits
    IN  IF ~literal THEN NaN
        ELSE LET dot == IF dots = {} THEN Len(body) + 1 ELSE CHOOSE i \in dots : TRUE
                 whole == SubSeq(body, 1, dot - 1)
                 fraction == SubSeq(body, dot + 1, Len(body))
                 magnitude == DigitsValue(whole) * Pow10(FractionDigits)
                                + DigitsValue(fraction)
                                    * Pow10(FractionDigits - Len(fraction))
             IN  [finite |-> TRUE,
                  v |-> IF token[1] = "-" THEN 0 - magnitude ELSE magnitude]

(* Math.abs *)
abs(x) == IF x < 0 THEN 0 - x ELSE x

(* 1e-6, in units of 10^-FractionDigits *)
DefaultTolerance == Pow10(FractionDigits - 6)

(* compare with the exact comparison trimming *)
compare_ExactTrims(p, actual, expected) ==
    trim(norm(p, actual)) = trim(norm(p, expected))

(* compare with trim removing every whitespace *)
compare_TrimSqueezes(p, actual, expected) ==
    IF p.checker_kind = "trim"
    THEN SelectSeq(norm(p, actual), LAMBDA c : c \notin Whitespace)
           = SelectSeq(norm(p, expected), LAMBDA c : c \notin Whitespace)
    ELSE norm(p, actual) = norm(p, expected)

(* compare with token not testing the lengths *)
compare_TokenPrefix(p, actual, expected) ==
    LET aT == splitWs(trim(norm(p, actual)), <<>>)
        eT == splitWs(trim(norm(p, expected)), <<>>)
    IN  \A i \in 1..Len(aT) : i <= Len(eT) => aT[i] = eT[i]

(* compare with float_tolerance judged like token *)
compare_NoTolerance(p, actual, expected) ==
    CASE p.checker_kind = "trim" ->
            trim(norm(p, actual)) = trim(norm(p, expected))
      [] p.checker_kind \in {"token", "float_tolerance"} ->
            LET aT == splitWs(trim(norm(p, actual)), <<>>)
                eT == splitWs(trim(norm(p, expected)), <<>>)
            IN  /\ Len(aT) = Len(eT)
                /\ \A i \in 1..Len(aT) : aT[i] = eT[i]
      [] OTHER -> norm(p, actual) = norm(p, expected)

(* compare; a checker_kind that is unset is "", and `kind || 'exact'` and  *)
(* the default of the switch both end in the exact comparison              *)
compare(p, actual, expected) ==
    CASE p.checker_kind = "trim" ->
            trim(norm(p, actual)) = trim(norm(p, expected))
      [] p.checker_kind = "token" ->
            LET aT == splitWs(trim(norm(p, actual)), <<>>)
                eT == splitWs(trim(norm(p, expected)), <<>>)
            IN  /\ Len(aT) = Len(eT)
                /\ \A i \in 1..Len(aT) : aT[i] = eT[i]
      [] p.checker_kind = "float_tolerance" ->
            LET tol == IF p.checker_float_tolerance \in {Undefined, Null}
                       THEN DefaultTolerance
                       ELSE p.checker_float_tolerance.n
                aT == splitWs(trim(norm(p, actual)), <<>>)
                eT == splitWs(trim(norm(p, expected)), <<>>)
            IN  /\ Len(aT) = Len(eT)
                /\ \A i \in 1..Len(aT) :
                     LET aNum == Number(aT[i])
                         eNum == Number(eT[i])
                     IN  IF aNum.finite /\ eNum.finite
                         THEN ~(abs(aNum.v - eNum.v) > tol)
                         ELSE aT[i] = eT[i]
      [] OTHER -> norm(p, actual) = norm(p, expected)

----------------------------------------------------------------------------
(* The problems, outputs and results the model draws from *)

MaxStrategies == 2

SqlTestCase(hidden, expected, fromAuthor, setup, query) ==
    [ input |-> <<"3">>, expectedOutput |-> expected, isHidden |-> hidden,
      sqlExpectedFromAuthor |-> fromAuthor, sqlSetup |-> setup, sqlQuery |-> query ]

TestCase(hidden, expected, fromAuthor) ==
    SqlTestCase(hidden, expected, fromAuthor, << >>,
                IF fromAuthor THEN <<"S">> ELSE << >>)

SqlProblem(kind, globalSetup, cases) ==
    [ problemType |-> "sql", checker_kind |-> kind,
      checker_case_insensitive |-> FALSE, checker_float_tolerance |-> Undefined,
      sqlGlobalSetup |-> globalSetup,
      testCases |-> cases ]

Problem(type, kind, ci, cases) ==
    [ problemType |-> type, checker_kind |-> kind,
      checker_case_insensitive |-> ci, checker_float_tolerance |-> Undefined,
      sqlGlobalSetup |-> << >>,
      testCases |-> cases ]

Six == <<"6", "\n">>
Seven == <<"7", "\n">>

Problems ==
    { Problem("algorithm", "trim", FALSE,
        << TestCase(FALSE, Six, FALSE), TestCase(TRUE, Six, FALSE),
           TestCase(FALSE, Six, FALSE) >>),
      Problem("algorithm", "trim", FALSE,
        << TestCase(FALSE, Six, FALSE), TestCase(TRUE, Seven, FALSE),
           TestCase(FALSE, Six, FALSE) >>),
      Problem("algorithm", "exact", FALSE, << TestCase(TRUE, <<"6">>, FALSE) >>),
      Problem("algorithm", "token", FALSE, << >>),
      Problem("sql", "token", FALSE,
        << TestCase(FALSE, Six, FALSE), TestCase(TRUE, Seven, TRUE),
           TestCase(FALSE, Six, FALSE) >>) }

(* what a program or a query can print *)
Outputs == { <<"6">>, <<"7">> }

(* types/index.ts: ExecutionResult, as a strategy's execute resolves it *)
StrategyResults ==
    { [success |-> TRUE, output |-> o, error |-> "", status |-> "accepted"] :
        o \in Outputs }
    \cup
    { [success |-> FALSE, output |-> << >>, error |-> "Runtime error",
       status |-> "runtime_error"] }

(* runSql followed by formatRows: the serialized rows, or a rejection *)
SqlOutcomes ==
    { [ok |-> TRUE, text |-> o, message |-> ""] : o \in Outputs }
    \cup { [ok |-> FALSE, text |-> << >>, message |-> "SQL error"] }

----------------------------------------------------------------------------
(* ExecutionStrategy.ts: PistonStrategy and Judge0Strategy                 *)

(* ToBoolean, as `&&`, `||`, `!` and `? :` apply it *)
Truthy(v) ==
    CASE v.t = "undefined" -> FALSE
      [] v.t = "null" -> FALSE
      [] v.t = "number" -> v.n # 0
      [] v.t = "string" -> v.s # << >>
      [] OTHER -> TRUE

(* a || b *)
Or(a, b) == IF Truthy(a) THEN a ELSE b

(* reading a property of undefined or null throws a TypeError *)
NoProperties(v) == v.t \in {"undefined", "null"}

(* v.p, for v neither undefined nor null and p a data property of a parsed body *)
Prop(v, p) ==
    IF v.t = "object" /\ p \in DOMAIN v.fields THEN v.fields[p] ELSE Undefined

(* a > k, the relational comparison of a parsed value with a number *)
Greater(a, k) == a.t = "number" /\ a.n > k

(* a body response.json() rejects *)
Unparseable == [t |-> "unparseable"]

(* what a try block ends with: a returned value or a thrown one *)
Return(v) == [thrown |-> FALSE, value |-> v]
Throw(isError, message) ==
    [thrown |-> TRUE, value |-> [isError |-> isError, message |-> message]]
TypeError == Throw(TRUE, <<"T", "y", "p", "e", "E", "r", "r", "o", "r">>)
SyntaxError == Throw(TRUE, <<"S", "y", "n", "t", "a", "x", "E", "r", "r", "o", "r">>)
InvalidCharacterError == Throw(TRUE, <<"I", "n", "v", "a", "l", "i", "d", "C", "h", "a", "r", "a", "c", "t", "e", "r", "E", "r", "r", "o", "r">>)

(* types/index.ts: ExecutionResult (runtime and memory, which no handler   *)
(* reads, are left out)                                                    *)
ExecutionResult(success, output, error, status) ==
    [success |-> success, output |-> output, error |-> error, status |-> status]

(* a catch block that lets the thrown value through *)
catch_Rethrows(try) == try

(* catch (error) { return { success: false, error: ..., status: 'runtime_error' } } *)
catch(try) ==
    IF try.thrown
    THEN ExecutionResult(FALSE, Undefined,
             IF try.value.isError THEN Str(try.value.message)
             ELSE Str(<<"E", "x", "e", "c", "u", "t", "i", "o", "n", " ", "f", "a", "i", "l", "e", "d">>),
             "runtime_error")
    ELSE try.value

(* String.fromCharCode for the characters the model uses *)
Chars == {"A", "B", "a", "z", "6", "e", "r", "U+03BB"}
fromCharCode(n) == CHOOSE c \in Chars : charCodeAt(c) = n

Base64Alphabet ==
    << "A", "B", "C", "D", "E", "F", "G", "H", "I", "J", "K", "L", "M",
       "N", "O", "P", "Q", "R", "S", "T", "U", "V", "W", "X", "Y", "Z",
       "a", "b", "c", "d", "e", "f", "g", "h", "i", "j", "k", "l", "m",
       "n", "o", "p", "q", "r", "s", "t", "u", "v", "w", "x", "y", "z",
       "0", "1", "2", "3", "4", "5", "6", "7", "8", "9", "+", "/" >>

Base64Value(c) == (CHOOSE i \in 1..64 : Base64Alphabet[i] = c) - 1

(* the bytes of the 6-bit groups of d, leftover bits dropped *)
RECURSIVE Base64Bytes(_)
Base64Bytes(d) ==
    IF Len(d) >= 4
    THEN LET n == ((Base64Value(d[1]) * 64 + Base64Value(d[2])) * 64
                    + Base64Value(d[3])) * 64 + Base64Value(d[4])
         IN  << n \div 65536, (n \div 256) % 256, n % 256 >>
               \o Base64Bytes(SubSeq(d, 5, Len(d)))
    ELSE IF Len(d) = 3
    THEN LET n == ((Base64Value(d[1]) * 64 + Base64Value(d[2])) * 64
                    + Base64Value(d[3])) \div 4
         IN  << n \div 256, n % 256 >>
    ELSE IF Len(d) = 2
    THEN << (Base64Value(d[1]) * 64 + Base64Value(d[2])) \div 16 >>
    ELSE << >>

(* atob: whitespace removed, up to two "=" of padding dropped when the     *)
(* length is a multiple of 4; a length of 4k+1 or a character outside the  *)
(* alphabet throws                                                         *)
atob(s) ==
    LET w == SelectSeq(s, LAMBDA c : c \notin Whitespace)
        n == Len(w)
        pad == IF n % 4 = 0 /\ n > 0 /\ w[n] = "="
               THEN IF w[n - 1] = "=" THEN 2 ELSE 1
               ELSE 0
        d == SubSeq(w, 1, n - pad)
        alphabet == {Base64Alphabet[i] : i \in 1..64}
    IN  IF Len(d) % 4 = 1 \/ \E i \in 1..Len(d) : d[i] \notin alphabet
        THEN InvalidCharacterError
        ELSE LET bytes == Base64Bytes(d)
             IN  Return(Str([i \in 1..Len(bytes) |-> fromCharCode(bytes[i])]))

(* btoa throws on a character outside Latin-1; its value is only sent *)
btoaThrows(s) == \E i \in 1..Len(s) : charCodeAt(s[i]) > 255

(* PistonStrategy.isAvailable and the try block of Judge0Strategy.isAvailable *)
isAvailableTry(resp) == IF resp.kind = "reject" THEN FALSE ELSE resp.ok

PistonIsAvailable(resp) == isAvailableTry(resp)

(* PistonMap judging by the exit codes only *)
PistonMap_IgnoresStderr(result) ==
    IF NoProperties(result) THEN TypeError
    ELSE
    LET compile == Prop(result, "compile")
        run == Prop(result, "run")
    IN  IF Truthy(compile) /\ Prop(compile, "code") # Num(0)
        THEN Return(ExecutionResult(FALSE, Undefined,
                 Or(Prop(compile, "stderr"), Prop(compile, "output")),
                 "compile_error"))
        ELSE IF NoProperties(run) THEN TypeError
        ELSE IF Prop(run, "code") # Num(0) /\ Truthy(Prop(run, "signal"))
        THEN Return(ExecutionResult(FALSE, Undefined,
                 Or(Prop(run, "stderr"), Str(<<"R", "u", "n", "t", "i", "m", "e", " ", "e", "r", "r", "o", "r">>)),
                 "runtime_error"))
        ELSE Return(ExecutionResult(TRUE, Prop(run, "stdout"), Undefined,
                 "accepted"))

(* PistonStrategy.execute from `const result = await response.json()` *)
PistonMap(result) ==
    IF NoProperties(result) THEN TypeError
    ELSE
    LET compile == Prop(result, "compile")
        run == Prop(result, "run")
    IN  IF Truthy(compile) /\ Prop(compile, "code") # Num(0)
        THEN Return(ExecutionResult(FALSE, Undefined,
                 Or(Prop(compile, "stderr"), Prop(compile, "output")),
                 "compile_error"))
        ELSE IF NoProperties(run) THEN TypeError
        ELSE IF Prop(run, "code") # Num(0) /\ Truthy(Prop(run, "signal"))
        THEN IF Prop(run, "signal") = Str(<<"S", "I", "G", "K", "I", "L", "L">>)
             THEN Return(ExecutionResult(FALSE, Undefined,
                      Str(<<"T", "i", "m", "e", " ", "o", "r", " ", "m", "e", "m", "o", "r", "y", " ", "l", "i", "m", "i", "t", " ", "e", "x", "c", "e", "e", "d", "e", "d">>), "time_limit"))
             ELSE Return(ExecutionResult(FALSE, Undefined,
                      Or(Prop(run, "stderr"), Str(<<"R", "u", "n", "t", "i", "m", "e", " ", "e", "r", "r", "o", "r">>)),
                      "runtime_error"))
        ELSE IF ~Truthy(Prop(run, "stderr"))
        THEN Return(ExecutionResult(TRUE, Prop(run, "stdout"), Undefined,
                 "accepted"))
        ELSE IF Prop(run, "stderr").t # "string" THEN TypeError
        ELSE IF trim(Prop(run, "stderr").s) # << >>
        THEN Return(ExecutionResult(FALSE, Prop(run, "stdout"),
                 Prop(run, "stderr"), "runtime_error"))
        ELSE Return(ExecutionResult(TRUE, Prop(run, "stdout"), Undefined,
                 "accepted"))

(* the try block of a strategy's execute from the fetch settling to the    *)
(* parsed body: the fetch rejects, the status is not OK, json() rejects,   *)
(* or the body is there to be mapped                                       *)
fetchThen(resp, prefix) ==
    IF resp.kind = "reject" THEN Throw(TRUE, resp.message)
    ELSE IF ~resp.ok THEN Throw(TRUE, prefix \o resp.statusText)
    ELSE IF resp.body = Unparseable THEN SyntaxError
    ELSE Return(resp.body)

PistonExecute(resp) ==
    LET body == fetchThen(resp, <<"P", "i", "s", "t", "o", "n", " ", "A", "P", "I", " ", "e", "r", "r", "o", "r", ":", " ">>)
    IN  catch(IF body.thrown THEN body ELSE PistonMap(body.value))

Judge0IsAvailable(key, resp) ==
    IF key = "" THEN FALSE ELSE isAvailableTry(resp)

(* c ? atob(c) : fallback for c a string or null, a thrown atob propagating *)
Decoded(c, fallback) ==
    IF ~Truthy(c) THEN Return(fallback)
    ELSE atob(c.s)

(* Judge0Strategy.execute from `const result = await submitResponse.json()` *)
Judge0Map(result) ==
    IF NoProperties(result) THEN TypeError
    ELSE
    LET status == Prop(result, "status")
        statusId == IF NoProperties(status) THEN Undefined ELSE Prop(status, "id")
        compile_output == Decoded(Prop(result, "compile_output"), Str(<<"C", "o", "m", "p", "i", "l", "a", "t", "i", "o", "n", " ", "e", "r", "r", "o", "r">>))
        stderr == Decoded(Prop(result, "stderr"), Str(<<"R", "u", "n", "t", "i", "m", "e", " ", "e", "r", "r", "o", "r">>))
        stdout == Decoded(Prop(result, "stdout"), Str(<< >>))
    IN  IF statusId = Num(6)
        THEN IF compile_output.thrown THEN compile_output
             ELSE Return(ExecutionResult(FALSE, Undefined, compile_output.value,
                      "compile_error"))
        ELSE IF statusId = Num(5)
        THEN Return(ExecutionResult(FALSE, Undefined, Str(<<"T", "i", "m", "e", " ", "l", "i", "m", "i", "t", " ", "e", "x", "c", "e", "e", "d", "e", "d">>),
                 "time_limit"))
        ELSE IF Greater(statusId, 6)
        THEN IF stderr.thrown THEN stderr
             ELSE Return(ExecutionResult(FALSE, Undefined, stderr.value,
                      "runtime_error"))
        ELSE IF stdout.thrown THEN stdout
        ELSE Return(ExecutionResult(TRUE, stdout.value, Undefined, "accepted"))

(* Judge0Start without the guard on judge0Id *)
Judge0Start_NoGuard(req) ==
    IF btoaThrows(req.code) \/ btoaThrows(req.input)
    THEN [fetch |-> FALSE, result |-> catch(InvalidCharacterError)]
    ELSE [fetch |-> TRUE, result |-> Undefined]

(* Judge0Strategy.execute up to its first await: the request is sent, or  *)
(* execute returns without sending it                                      *)
Judge0Start(req) ==
    IF ~Truthy(req.language.judge0Id)
    THEN [fetch |-> FALSE,
          result |-> ExecutionResult(FALSE, Undefined,
              Str(<<"L", "a", "n", "g", "u", "a", "g", "e", " ">> \o req.language.name \o <<" ", "n", "o", "t", " ", "s", "u", "p", "p", "o", "r", "t", "e", "d", " ", "b", "y", " ", "J", "u", "d", "g", "e", "0">>),
              "compile_error")]
    ELSE IF btoaThrows(req.code) \/ btoaThrows(req.input)
    THEN [fetch |-> FALSE, result |-> catch(InvalidCharacterError)]
    ELSE [fetch |-> TRUE, result |-> Undefined]

Judge0Execute(resp) ==
    LET body == fetchThen(resp, <<"J", "u", "d", "g", "e", "0", " ", "A", "P", "I", " ", "e", "r", "r", "o", "r", ":", " ">>)
    IN  catch(IF body.thrown THEN body ELSE Judge0Map(body.value))

----------------------------------------------------------------------------
(* The SQL judging adapter: runSql and formatRows, used by part_005.       *)
(* The engine is a small one: a database holds one table; a script is a    *)
(* sequence of one-letter statements, C creating the table, I inserting    *)
(* the row (6), N the row (NULL), D deleting every row, S selecting every  *)
(* row; any other letter is a syntax error.                                *)

EmptyDatabase == [exists |-> FALSE, rows |-> << >>]

(* one statement run on db: the database after it, the rows it yields,     *)
(* or a failure                                                            *)
sqlStatement(db, c) ==
    CASE c = "C" ->
            IF db.exists
            THEN [ok |-> FALSE, db |-> db, rows |-> << >>, message |-> "table exists"]
            ELSE [ok |-> TRUE, db |-> [exists |-> TRUE, rows |-> << >>],
                  rows |-> << >>, message |-> ""]
      [] c \in {"I", "N", "D", "S"} ->
            IF ~db.exists
            THEN [ok |-> FALSE, db |-> db, rows |-> << >>, message |-> "no such table"]
            ELSE [ok |-> TRUE,
                  db |-> [db EXCEPT !.rows =
                            CASE c = "I" -> Append(@, <<Str(<<"6">>)>>)
                              [] c = "N" -> Append(@, <<Null>>)
                              [] c = "D" -> << >>
                              [] OTHER -> @],
                  rows |-> IF c = "S" THEN db.rows ELSE << >>,
                  message |-> ""]
      [] OTHER -> [ok |-> FALSE, db |-> db, rows |-> << >>, message |-> "syntax error"]

(* a script run statement by statement, stopping at the first failure;     *)
(* rows are those of the final statement                                   *)
RECURSIVE sqlScript(_, _)
sqlScript(db, script) ==
    IF script = << >>
    THEN [ok |-> TRUE, db |-> db, rows |-> << >>, message |-> ""]
    ELSE LET r == sqlStatement(db, Head(script))
         IN  IF ~r.ok \/ Len(script) = 1 THEN r
             ELSE sqlScript(r.db, Tail(script))

(* runSql keeping the database of the call before *)
runSql_SharedDatabase(args, last) ==
    LET g == sqlScript(last, args.globalSetup)
        p == IF g.ok THEN sqlScript(g.db, args.perTestSetup) ELSE g
    IN  IF p.ok THEN sqlScript(p.db, args.query) ELSE p

(* runSql({globalSetup, perTestSetup, query}): a fresh database, the global *)
(* setup, the per-test setup, then the query; last is the database the      *)
(* call before left                                                         *)
runSql(args, last) ==
    LET g == sqlScript(EmptyDatabase, args.globalSetup)
        p == IF g.ok THEN sqlScript(g.db, args.perTestSetup) ELSE g
    IN  IF p.ok THEN sqlScript(p.db, args.query) ELSE p

(* formatRows: columns joined by a space, rows by a newline, NULL as NULL *)
RECURSIVE join(_, _)
join(parts, sep) ==
    IF parts = << >> THEN << >>
    ELSE IF Len(parts) = 1 THEN parts[1]
    ELSE parts[1] \o sep \o join(Tail(parts), sep)

formatRows(rows) ==
    join([ i \in 1..Len(rows) |->
             join([ j \in 1..Len(rows[i]) |->
                      IF rows[i][j] = Null THEN <<"N", "U", "L", "L">>
                      ELSE rows[i][j].s ], <<" ">>) ],
         <<"\n">>)

----------------------------------------------------------------------------
(* The handlers are written as operators on a record s of the values the   *)
(* handler in flight reads and writes; an action applies the record the    *)
(* code reaches at its next await.                                         *)

Cur ==
    [ state |-> state, lastCodeHash |-> lastCodeHash, recordCalls |-> recordCalls,
      isRunning |-> isRunning, consoleOutput |-> consoleOutput,
      consoleError |-> consoleError, toast |-> toast, handler |-> handler,
      pc |-> pc, idx |-> idx, passedCount |-> passedCount,
      actualRaw |-> actualRaw, executed |-> executed, perCaseLog |-> perCaseLog,
      currentStrategy |-> currentStrategy, probing |-> probing,
      probes |-> probes ]

(* useRateLimit.ts: isInCooldown, computed while rendering *)
InCooldown(st, t) == st.cooldownUntil # 0 /\ t < st.cooldownUntil

(* React renders the page again when a state of the page or of the hook    *)
(* changed.  An action computes the record once and applies it:            *)
(* \E applied \in {handler(Cur)} : Apply(applied).                         *)
Apply(s) ==
    /\ state' = s.state
    /\ lastCodeHash' = s.lastCodeHash
    /\ recordCalls' = s.recordCalls
    /\ isRunning' = s.isRunning
    /\ consoleOutput' = s.consoleOutput
    /\ consoleError' = s.consoleError
    /\ toast' = s.toast
    /\ handler' = s.handler
    /\ pc' = s.pc
    /\ idx' = s.idx
    /\ passedCount' = s.passedCount
    /\ actualRaw' = s.actualRaw
    /\ executed' = s.executed
    /\ perCaseLog' = s.perCaseLog
    /\ currentStrategy' = s.currentStrategy
    /\ probing' = s.probing
    /\ probes' = s.probes
    /\ isInCooldown' =
         IF <<s.state, s.isRunning, s.consoleOutput, s.consoleError>>
              # <<state, isRunning, consoleOutput, consoleError>>
         THEN InCooldown(s.state, now)
         ELSE isInCooldown
    /\ UNCHANGED <<now, ticks, checkerVars, strategyVars, submitted, problem, code, strategies,
                   selecting>>

----------------------------------------------------------------------------
(* ExecutionStrategy.ts: ExecutionService *)

NoBackend ==
    [ success |-> FALSE, output |-> << >>,
      error |-> "No execution backend available", status |-> "runtime_error" ]

(* execute, from `return this.currentStrategy.execute(request)`: the       *)
(* request for test case c goes to the bound strategy                      *)
executeOnCurrent(s, c) ==
    [ s EXCEPT !.pc = "exec",
               !.executed = Append(@, [case |-> c, to |-> strategies[s.currentStrategy]]) ]

(* execute probing the strategies on every call *)
execute_AlwaysProbes(s, c) ==
    [s EXCEPT !.pc = "probe", !.probing = 1, !.probes = << >>]

(* execute, up to its first await *)
execute(s, c) ==
    IF s.currentStrategy = 0
    THEN [s EXCEPT !.pc = "probe", !.probing = 1, !.probes = << >>]
    ELSE executeOnCurrent(s, c)

----------------------------------------------------------------------------
(* part_005: handleSubmit *)

totalCases == Len(problem.testCases)

(* finally leaving the running flag set *)
handleSubmitFinally_KeepsFlag(s) ==
    [s EXCEPT !.pc = "idle"]

(* finally *)
handleSubmitFinally(s) ==
    [s EXCEPT !.isRunning = FALSE, !.pc = "idle"]

(* catch *)
handleSubmitCatch(s, message) ==
    handleSubmitFinally(
      [ s EXCEPT !.consoleError = message,
                 !.perCaseLog = Append(@, [index |-> s.idx, passed |-> FALSE]) ])

(* after the loop: recordAttempt and the summary line *)
handleSubmitAfterLoop(s) ==
    LET r == recordAttempt(s.state, checkedCode')
        line == IF s.passedCount = totalCases
                THEN [line |-> "accepted", total |-> totalCases]
                ELSE [line |-> "summary", passed |-> s.passedCount,
                      total |-> totalCases]
    IN  handleSubmitFinally(
          [ s EXCEPT !.state = r.state,
                     !.lastCodeHash = r.lastCodeHash,
                     !.recordCalls = @ + 1,
                     !.consoleOutput = Append(@, line),
                     !.toast = IF s.passedCount = totalCases
                               THEN [title |-> "Congratulations!", description |-> ""]
                               ELSE @ ])

(* handleSubmitIteration starting the next test case without awaiting this one *)
handleSubmitIteration_TwoAtOnce(s, i) ==
    LET s1 == IF problem.problemType = "sql"
              THEN [ s EXCEPT !.idx = i, !.pc = "sqlUser",
                              !.executed = Append(@, [case |-> i, to |-> "runSql"]) ]
              ELSE execute([s EXCEPT !.idx = i], i)
    IN  IF i < totalCases
        THEN [s1 EXCEPT !.executed = Append(@, [case |-> i + 1, to |-> "Piston"])]
        ELSE s1

(* one iteration of the loop, up to its first await *)
handleSubmitIteration(s, i) ==
    IF problem.problemType = "sql"
    THEN [ s EXCEPT !.idx = i, !.pc = "sqlUser",
                    !.executed = Append(@, [case |-> i, to |-> "runSql"]) ]
    ELSE execute([s EXCEPT !.idx = i], i)

(* for (const testCase of problem.testCases) *)
handleSubmitLoop(s, i) ==
    IF i > totalCases THEN handleSubmitAfterLoop(s) ELSE handleSubmitIteration(s, i)

(* handleSubmitCompare without the break of its else branch *)
handleSubmitCompare_NoBreak(s, actual, expected) ==
    handleSubmitLoop(
      IF compare(problem, actual, expected)
      THEN [ s EXCEPT !.passedCount = @ + 1,
                      !.perCaseLog = Append(@, [index |-> s.idx, passed |-> TRUE]),
                      !.consoleOutput =
                          Append(@, [line |-> "passed", passed |-> s.passedCount + 1,
                                     total |-> totalCases]) ]
      ELSE [ s EXCEPT !.perCaseLog = Append(@, [index |-> s.idx, passed |-> FALSE]),
                      !.consoleOutput = Append(@, [line |-> "hidden failed"]) ],
      s.idx + 1)

(* handleSubmitCompare counting the case before it is compared *)
handleSubmitCompare_CountsFirst(s, actual, expected) ==
    IF compare(problem, actual, expected)
    THEN handleSubmitLoop(
           [ s EXCEPT !.passedCount = @ + 1,
                      !.perCaseLog = Append(@, [index |-> s.idx, passed |-> TRUE]),
                      !.consoleOutput =
                          Append(@, [line |-> "passed", passed |-> s.passedCount + 1,
                                     total |-> totalCases]) ],
           s.idx + 1)
    ELSE handleSubmitAfterLoop(
           [ s EXCEPT !.passedCount = @ + 1,
                      !.perCaseLog = Append(@, [index |-> s.idx, passed |-> FALSE]),
                      !.consoleOutput =
                 Append(@, IF ~problem.testCases[s.idx].isHidden
                           THEN [line |-> "failed", expected |-> trim(expected),
                                 got |-> trim(actual)]
                           ELSE [line |-> "hidden failed"]) ])

(* handleSubmitCompare without the isHidden test *)
handleSubmitCompare_ShowsHidden(s, actual, expected) ==
    IF compare(problem, actual, expected)
    THEN handleSubmitLoop(
           [ s EXCEPT !.passedCount = @ + 1,
                      !.perCaseLog = Append(@, [index |-> s.idx, passed |-> TRUE]),
                      !.consoleOutput =
                          Append(@, [line |-> "passed", passed |-> s.passedCount + 1,
                                     total |-> totalCases]) ],
           s.idx + 1)
    ELSE handleSubmitAfterLoop(
           [ s EXCEPT !.perCaseLog = Append(@, [index |-> s.idx, passed |-> FALSE]),
                      !.consoleOutput =
                 Append(@, [line |-> "failed", expected |-> trim(expected),
                            got |-> trim(actual)]) ])

(* if (compare(actualRaw, expectedRaw)) ... else ... break *)
handleSubmitCompare(s, actual, expected) ==
    IF compare(problem, actual, expected)
    THEN handleSubmitLoop(
           [ s EXCEPT !.passedCount = @ + 1,
                      !.perCaseLog = Append(@, [index |-> s.idx, passed |-> TRUE]),
                      !.consoleOutput =
                          Append(@, [line |-> "passed", passed |-> s.passedCount + 1,
                                     total |-> totalCases]) ],
           s.idx + 1)
    ELSE handleSubmitAfterLoop(
           [ s EXCEPT !.perCaseLog = Append(@, [index |-> s.idx, passed |-> FALSE]),
                      !.consoleOutput =
                 Append(@, IF ~problem.testCases[s.idx].isHidden
                           THEN [line |-> "failed", expected |-> trim(expected),
                                 got |-> trim(actual)]
                           ELSE [line |-> "hidden failed"]) ])

(* the result of executionService.execute for the test case s.idx *)
handleSubmitResult(s, result) ==
    IF result.success
    THEN handleSubmitCompare(s, result.output, problem.testCases[s.idx].expectedOutput)
    ELSE handleSubmitAfterLoop(
           [ s EXCEPT !.perCaseLog = Append(@, [index |-> s.idx, passed |-> FALSE]),
                      !.consoleError =
                 IF result.error # "" THEN result.error ELSE "Execution failed" ])

(* handleSubmitSqlUser with the failure caught inside the loop *)
handleSubmitSqlUser_CaughtInLoop(s, out) ==
    IF ~out.ok
    THEN handleSubmitLoop(
           [ s EXCEPT !.consoleError = out.message,
                      !.perCaseLog = Append(@, [index |-> s.idx, passed |-> FALSE]) ],
           s.idx + 1)
    ELSE IF /\ problem.testCases[s.idx].sqlExpectedFromAuthor
            /\ problem.testCases[s.idx].sqlQuery # << >>
    THEN [ s EXCEPT !.pc = "sqlExpected", !.actualRaw = out.text,
                    !.executed = Append(@, [case |-> s.idx, to |-> "runSql author"]) ]
    ELSE handleSubmitCompare(s, out.text, problem.testCases[s.idx].expectedOutput)

(* the user's query has run for the test case s.idx *)
handleSubmitSqlUser(s, out) ==
    IF ~out.ok THEN handleSubmitCatch(s, out.message)
    ELSE IF /\ problem.testCases[s.idx].sqlExpectedFromAuthor
            /\ problem.testCases[s.idx].sqlQuery # << >>
    THEN [ s EXCEPT !.pc = "sqlExpected", !.actualRaw = out.text,
                    !.executed = Append(@, [case |-> s.idx, to |-> "runSql author"]) ]
    ELSE handleSubmitCompare(s, out.text, problem.testCases[s.idx].expectedOutput)

(* the author's query has run for the test case s.idx *)
handleSubmitSqlExpected(s, out) ==
    IF ~out.ok THEN handleSubmitCatch(s, out.message)
    ELSE handleSubmitCompare([s EXCEPT !.actualRaw = << >>], s.actualRaw, out.text)

(* handleSubmitStart without the return after the toast *)
handleSubmitStart_NoReturn(s, check) ==
    handleSubmitLoop(
      [ s EXCEPT !.state = check.state, !.recordCalls = 0,
                 !.toast = IF ~check.result.allowed
                           THEN [title |-> "Rate Limited",
                                 description |-> check.result.message]
                           ELSE @,
                 !.isRunning = TRUE, !.handler = "submit",
                 !.consoleOutput = <<[line |-> "submitting"]>>,
                 !.consoleError = "", !.passedCount = 0, !.idx = 0,
                 !.executed = << >>, !.perCaseLog = << >> ],
      1)

(* handleSubmit from the click to its first await *)
handleSubmitStart(s, check) ==
    IF ~check.result.allowed
    THEN [ s EXCEPT !.state = check.state, !.recordCalls = 0,
                    !.toast = [title |-> "Rate Limited",
                               description |-> check.result.message] ]
    ELSE handleSubmitLoop(
           [ s EXCEPT !.state = check.state, !.recordCalls = 0,
                      !.isRunning = TRUE, !.handler = "submit",
                      !.consoleOutput = <<[line |-> "submitting"]>>,
                      !.consoleError = "", !.passedCount = 0, !.idx = 0,
                      !.executed = << >>, !.perCaseLog = << >> ],
           1)

(* the Submit button is disabled={isRunning || isInCooldown} *)
handleSubmit ==
    /\ ~isRunning
    /\ ~isInCooldown
    /\ LET check == checkRateLimit(state, lastCodeHash, code, now)
       IN  /\ rateLimitCheck' = check.result
           /\ checkedCode' = code
           /\ received' = IF check.result.allowed THEN 0 ELSE received
           /\ UNCHANGED sqlVars
           /\ (\E applied \in {handleSubmitStart(Cur, check)} : Apply(applied))

----------------------------------------------------------------------------
(* part_005: handleRun *)

FirstVisible ==
    IF \E i \in 1..totalCases : ~problem.testCases[i].isHidden
    THEN CHOOSE i \in 1..totalCases :
            /\ ~problem.testCases[i].isHidden
            /\ \A j \in 1..(i - 1) : problem.testCases[j].isHidden
    ELSE 0

handleRunFinally(s) ==
    [s EXCEPT !.isRunning = FALSE, !.pc = "idle"]

handleRunResult(s, result) ==
    handleRunFinally(
      IF result.success
      THEN [ s EXCEPT !.consoleOutput =
                 <<[line |-> "raw",
                    text |-> IF result.output # << >> THEN result.output
                             ELSE <<"No output">>]>> ]
      ELSE [ s EXCEPT !.consoleError =
                 IF result.error # "" THEN result.error ELSE "Execution failed" ])

handleRunSql(s, out) ==
    handleRunFinally(
      IF out.ok
      THEN [s EXCEPT !.consoleOutput = <<[line |-> "raw", text |-> out.text]>>]
      ELSE [s EXCEPT !.consoleError = out.message])

(* handleRunStart recording the run as an attempt *)
handleRunStart_Records(s) ==
    LET r == recordAttempt(s.state, code)
        s0 == [ s EXCEPT !.isRunning = TRUE, !.handler = "run",
                         !.consoleOutput = << >>, !.consoleError = "",
                         !.executed = << >>, !.perCaseLog = << >>,
                         !.state = r.state, !.lastCodeHash = r.lastCodeHash ]
    IN  IF problem.problemType = "sql"
        THEN [ s0 EXCEPT !.pc = "sqlUser",
                         !.executed = Append(@, [case |-> FirstVisible, to |-> "runSql"]) ]
        ELSE execute(s0, FirstVisible)

(* handleRun from the click to its first await *)
handleRunStart(s) ==
    LET s0 == [ s EXCEPT !.isRunning = TRUE, !.handler = "run",
                         !.consoleOutput = << >>, !.consoleError = "",
                         !.executed = << >>, !.perCaseLog = << >> ]
    IN  IF problem.problemType = "sql"
        THEN [ s0 EXCEPT !.pc = "sqlUser",
                         !.executed = Append(@, [case |-> FirstVisible, to |-> "runSql"]) ]
        ELSE execute(s0, FirstVisible)

(* the Run button is disabled={isRunning} *)
handleRun ==
    /\ ~isRunning
    /\ UNCHANGED <<rateLimitCheck, checkedCode, sqlVars>>
    /\ received' = 0
    /\ (\E applied \in {handleRunStart(Cur)} : Apply(applied))

----------------------------------------------------------------------------
(* The awaited calls resolve *)

(* the case whose request is in flight *)
CurrentCase == IF handler = "run" THEN FirstVisible ELSE idx

handleResult(s, result) ==
    IF s.handler = "submit" THEN handleSubmitResult(s, result)
    ELSE handleRunResult(s, result)

(* selectBestStrategy binding the last strategy when none has answered true *)
selectBestStrategy_FallsBack(s, ok) ==
    LET s1 == [s EXCEPT !.probes = Append(@, [strategy |-> s.probing, answer |-> ok])]
    IN  IF ok \/ s.probing >= Len(strategies)
        THEN executeOnCurrent(
               [s1 EXCEPT !.currentStrategy = s.probing, !.probing = 0], CurrentCase)
        ELSE [s1 EXCEPT !.probing = @ + 1]

(* selectBestStrategy called by execute: isAvailable of strategy s.probing  *)
(* has answered ok; then the rest of execute                                *)
selectBestStrategy(s, ok) ==
    LET s1 == [s EXCEPT !.probes = Append(@, [strategy |-> s.probing, answer |-> ok])]
    IN  IF ok
        THEN executeOnCurrent(
               [s1 EXCEPT !.currentStrategy = s.probing, !.probing = 0], CurrentCase)
        ELSE IF s.probing < Len(strategies)
        THEN [s1 EXCEPT !.probing = @ + 1]
        ELSE IF s.currentStrategy = 0
        THEN handleResult([s1 EXCEPT !.probing = 0], NoBackend)
        ELSE executeOnCurrent([s1 EXCEPT !.probing = 0], CurrentCase)

IsAvailableReturns ==
    /\ pc = "probe"
    /\ UNCHANGED <<rateLimitCheck, checkedCode, received, sqlVars>>
    /\ \E ok \in BOOLEAN : (\E applied \in {selectBestStrategy(Cur, ok)} : Apply(applied))

StrategyExecuteReturns ==
    /\ pc = "exec"
    /\ UNCHANGED <<rateLimitCheck, checkedCode, sqlVars>>
    /\ received' = received + 1
    /\ \E result \in StrategyResults : (\E applied \in {handleResult(Cur, result)} : Apply(applied))

RunSqlReturns ==
    /\ pc \in {"sqlUser", "sqlExpected"}
    /\ UNCHANGED <<rateLimitCheck, checkedCode, sqlVars>>
    /\ received' = received + 1
    /\ \E out \in SqlOutcomes :
         (\E applied \in {IF handler = "run" THEN handleRunSql(Cur, out)
               ELSE IF pc = "sqlUser" THEN handleSubmitSqlUser(Cur, out)
               ELSE handleSubmitSqlExpected(Cur, out)} : Apply(applied))

----------------------------------------------------------------------------
(* The rest of the page and of the service *)

(* the editor's onChange: setCode *)
setCode ==
    /\ \E c \in Codes : c # code /\ code' = c
    /\ isInCooldown' = InCooldown(state, now)
    /\ UNCHANGED <<now, ticks, checkerVars, strategyVars, sqlVars, limiterVars, problem, isRunning, consoleOutput,
                   consoleError, toast, handler, pc, idx, passedCount, actualRaw,
                   executed, perCaseLog, received, serviceVars>>

addStrategy ==
    /\ Len(strategies) < MaxStrategies
    /\ strategies' = Append(strategies, "Judge0")
    /\ UNCHANGED <<now, ticks, checkerVars, strategyVars, sqlVars, limiterVars, pageVars, currentStrategy, probing,
                   probes, selecting>>

(* selectBestStrategy called directly, up to its first await *)
CallSelectBestStrategy ==
    /\ selecting = 0
    /\ selecting' = 1
    /\ UNCHANGED <<now, ticks, checkerVars, strategyVars, sqlVars, limiterVars, pageVars, strategies, currentStrategy,
                   probing, probes>>

(* isAvailable of strategy `selecting` has answered *)
SelectIsAvailableReturns ==
    /\ selecting # 0
    /\ \E ok \in BOOLEAN :
         IF ok
         THEN currentStrategy' = selecting /\ selecting' = 0
         ELSE /\ selecting' = IF selecting < Len(strategies) THEN selecting + 1 ELSE 0
              /\ UNCHANGED currentStrategy
    /\ UNCHANGED <<now, ticks, checkerVars, strategyVars, sqlVars, limiterVars, pageVars, strategies, probing, probes>>

----------------------------------------------------------------------------
(* The strategies called on their own: requests, and what a fetch settles on *)

(* types/index.ts: SUPPORTED_LANGUAGES, the javascript and the sql entry *)
Languages ==
    { [name |-> <<"J", "a", "v", "a", "S", "c", "r", "i", "p", "t">>,
       judge0Id |-> Num(63)],
      [name |-> <<"S", "Q", "L">>, judge0Id |-> Undefined] }

Requests ==
    { [code |-> c, language |-> l, input |-> <<"6">>] :
        c \in { <<"A", "a">>, <<"U+03BB">> }, l \in Languages }

NoResponse == [kind |-> "none"]
Rejected == [kind |-> "reject", message |-> <<"F", "a", "i", "l", "e", "d">>]
Response(ok, body) ==
    [kind |-> "response", ok |-> ok, statusText |-> IF ok THEN <<"O", "K">> ELSE << >>,
     body |-> body]

PistonCompiles ==
    {Undefined} \cup
    { Obj([code |-> Num(k), stderr |-> e, output |-> o]) :
        k \in {0, 1}, e \in {Str(<< >>), Str(<<"e">>)},
        o \in {Undefined, Str(<<"r">>)} }

PistonRuns ==
    { Obj([code |-> c, signal |-> g, stdout |-> o, stderr |-> e]) :
        c \in {Undefined, Num(0), Num(1)},
        g \in {Null, Str(<<"S", "I", "G", "K", "I", "L", "L">>),
               Str(<<"S", "I", "G", "S", "E", "G", "V">>)},
        o \in {Undefined, Str(<< >>), Str(<<"6">>)},
        e \in {Undefined, Str(<< >>), Str(<<" ">>), Str(<<"e", "r", "r">>), Num(5)} }

PistonResponses ==
    {Rejected, Response(FALSE, Unparseable), Response(TRUE, Unparseable),
     Response(TRUE, Null), Response(TRUE, Obj([compile |-> Undefined, run |-> Undefined]))}
    \cup { Response(TRUE, Obj([compile |-> c, run |-> r])) :
             c \in PistonCompiles, r \in PistonRuns }

(* base64 texts: "Ng==" is "6", "ZXJy" is "err"; "!" and "N" do not decode *)
Judge0Responses ==
    {Rejected, Response(FALSE, Unparseable), Response(TRUE, Unparseable),
     Response(TRUE, Null)}
    \cup { Response(TRUE, Obj([status |-> st, stdout |-> o, stderr |-> e,
                               compile_output |-> c])) :
             st \in {Undefined} \cup { Obj([id |-> Num(k)]) : k \in 1..8 },
             o \in {Null, Str(<<"N", "g", "=", "=">>), Str(<<"!">>)},
             e \in {Null, Str(<<"Z", "X", "J", "y">>), Str(<<"N">>)},
             c \in {Null, Str(<<"Z", "X", "J", "y">>), Str(<<"!">>)} }

AvailabilityResponses ==
    {Rejected, Response(FALSE, Unparseable), Response(TRUE, Unparseable)}

StrategyNames == {"Piston", "Judge0"}

(* isAvailable called, up to its fetch or its return *)
CallIsAvailable ==
    /\ ~awaiting
    /\ \E n \in StrategyNames :
         /\ called' = <<n, "isAvailable">>
         /\ IF n = "Judge0" /\ apiKey = ""
            THEN /\ awaiting' = FALSE
                 /\ fetchCalls' = 0
                 /\ returned' = Judge0IsAvailable(apiKey, NoResponse)
            ELSE /\ awaiting' = TRUE
                 /\ fetchCalls' = 1
                 /\ returned' = Undefined
    /\ fetched' = NoResponse
    /\ UNCHANGED <<now, ticks, checkerVars, limiterVars, pageVars, serviceVars, sqlVars, request, apiKey>>

IsAvailableFetched ==
    /\ awaiting
    /\ called[2] = "isAvailable"
    /\ \E resp \in AvailabilityResponses :
         /\ fetched' = resp
         /\ returned' = IF called[1] = "Piston" THEN PistonIsAvailable(resp)
                        ELSE Judge0IsAvailable(apiKey, resp)
    /\ awaiting' = FALSE
    /\ UNCHANGED <<now, ticks, checkerVars, limiterVars, pageVars, serviceVars, sqlVars, request, apiKey,
                   called, fetchCalls>>

(* execute called, up to its fetch or its return *)
CallExecute ==
    /\ ~awaiting
    /\ \E n \in StrategyNames :
         /\ called' = <<n, "execute">>
         /\ LET start == IF n = "Piston" THEN [fetch |-> TRUE, result |-> Undefined]
                         ELSE Judge0Start(request)
            IN  /\ awaiting' = start.fetch
                /\ fetchCalls' = IF start.fetch THEN 1 ELSE 0
                /\ returned' = start.result
    /\ fetched' = NoResponse
    /\ UNCHANGED <<now, ticks, checkerVars, limiterVars, pageVars, serviceVars, sqlVars, request, apiKey>>

ExecuteFetched ==
    /\ awaiting
    /\ called[2] = "execute"
    /\ \E resp \in (IF called[1] = "Piston" THEN PistonResponses ELSE Judge0Responses) :
         /\ fetched' = resp
         /\ returned' = IF called[1] = "Piston" THEN PistonExecute(resp)
                        ELSE Judge0Execute(resp)
    /\ awaiting' = FALSE
    /\ UNCHANGED <<now, ticks, checkerVars, limiterVars, pageVars, serviceVars, sqlVars, request, apiKey,
                   called, fetchCalls>>

----------------------------------------------------------------------------
(* The page with its hook and the execution service *)

InitPageWith(problems, codes) ==
    /\ problem \in problems
    /\ code \in codes
    /\ isRunning = FALSE
    /\ consoleOutput = << >>
    /\ consoleError = ""
    /\ toast = [title |-> "", description |-> ""]
    /\ isInCooldown = FALSE
    /\ handler = "none"
    /\ pc = "idle"
    /\ idx = 0
    /\ passedCount = 0
    /\ actualRaw = << >>
    /\ executed = << >>
    /\ perCaseLog = << >>
    /\ received = 0

InitPage == InitPageWith(Problems, Codes)

(* no runSql call has been made *)
InitSql ==
    /\ database = EmptyDatabase
    /\ sqlRuns = << >>

InitService ==
    /\ strategies = <<"Piston">>
    /\ currentStrategy = 0
    /\ probing = 0
    /\ probes = << >>
    /\ selecting = 0

InitHook ==
    /\ now = 1
    /\ ticks = 0
    /\ state = [attempts |-> 0, windowStart |-> now, cooldownUntil |-> 0]
    /\ lastCodeHash = <<>>
    /\ rateLimitCheck = [allowed |-> FALSE, message |-> "", waitTime |-> 0]
    /\ checkedCode = <<>>
    /\ recordCalls = 0
    /\ submitted = << >>

(* no strategy method is being called on its own *)
InitStrategy ==
    /\ request \in Requests
    /\ apiKey \in {"", "key"}
    /\ called = <<"none", "none">>
    /\ awaiting = FALSE
    /\ fetchCalls = 0
    /\ fetched = NoResponse
    /\ returned = Undefined

StrategyIdle ==
    /\ InitStrategy
    /\ request.code = <<"A", "a">>
    /\ Truthy(request.language.judge0Id)
    /\ apiKey = ""

(* no comparison has been made on its own *)
CheckerIdle ==
    compared = [ called |-> "none", problem |-> Problem("algorithm", "", FALSE, << >>),
                 actual |-> << >>, expected |-> << >>, result |-> FALSE ]

Init == InitHook /\ InitPage /\ InitService /\ StrategyIdle /\ InitSql /\ CheckerIdle

(* The application as it is wired: nothing calls addStrategy or            *)
(* selectBestStrategy, the handlers call execute.                          *)
Next ==
    \/ Tick
    \/ setCode
    \/ handleRun
    \/ handleSubmit
    \/ IsAvailableReturns
    \/ StrategyExecuteReturns
    \/ RunSqlReturns

Spec == Init /\ [][Next]_vars

(* The page at one instant, whose awaited calls settle: a fetch resolves   *)
(* or rejects, a query ends                                                *)
NextSettling ==
    \/ setCode
    \/ handleRun
    \/ handleSubmit
    \/ IsAvailableReturns
    \/ StrategyExecuteReturns
    \/ RunSqlReturns

SpecSettling ==
    /\ Init
    /\ [][NextSettling]_vars
    /\ WF_vars(IsAvailableReturns)
    /\ WF_vars(StrategyExecuteReturns)
    /\ WF_vars(RunSqlReturns)

(* The execution service with any caller of its public methods beside the  *)
(* handlers, at one instant and with one editor content                    *)
NextService ==
    \/ handleRun
    \/ handleSubmit
    \/ IsAvailableReturns
    \/ StrategyExecuteReturns
    \/ RunSqlReturns
    \/ addStrategy
    \/ CallSelectBestStrategy
    \/ SelectIsAvailableReturns

SpecService == Init /\ [][NextService]_vars

----------------------------------------------------------------------------
(* The hook used on its own: any caller checking and recording *)

InitLimiter ==
    /\ InitHook
    /\ InitService
    /\ StrategyIdle
    /\ InitSql
    /\ CheckerIdle
    /\ InitPage
    /\ problem = Problem("algorithm", "token", FALSE, << >>)
    /\ code = <<"A", "a">>

CallCheckRateLimit ==
    \E c \in Codes :
        LET r == checkRateLimit(state, lastCodeHash, c, now)
            kept == SelectSeq(submitted, LAMBDA e : e.recorded)
        IN  /\ rateLimitCheck' = r.result
            /\ state' = r.state
            /\ checkedCode' = c
            /\ recordCalls' = 0
            /\ submitted' = IF r.result.allowed
                            THEN Append(kept, [at |-> now, recorded |-> FALSE,
                                               cooldown |-> state.cooldownUntil])
                            ELSE kept
            /\ UNCHANGED <<now, ticks, checkerVars, strategyVars, sqlVars, lastCodeHash, pageVars, serviceVars>>

(* recordAttempt is called only after an allowed check, once per submission *)
CallRecordAttempt ==
    /\ rateLimitCheck.allowed
    /\ recordCalls = 0
    /\ LET r == recordAttempt(state, checkedCode)
       IN  /\ state' = r.state
           /\ lastCodeHash' = r.lastCodeHash
    /\ recordCalls' = 1
    /\ submitted' = [submitted EXCEPT ![Len(submitted)].recorded = TRUE]
    /\ UNCHANGED <<now, ticks, checkerVars, strategyVars, sqlVars, rateLimitCheck, checkedCode, pageVars, serviceVars>>

(* the clock of the hook on its own, which can also step just past a window *)
LimiterTickSteps == TickSteps \cup {windowMs + 1}

TickLimiter ==
    /\ ticks < MaxTicks
    /\ \E d \in LimiterTickSteps : now' = now + d
    /\ ticks' = ticks + 1
    /\ UNCHANGED <<limiterVars, pageVars, serviceVars, strategyVars, sqlVars, checkerVars>>

NextLimiter == TickLimiter \/ CallCheckRateLimit \/ CallRecordAttempt

SpecLimiter == InitLimiter /\ [][NextLimiter]_vars

----------------------------------------------------------------------------
(* Submits of SQL problems, judged by the SQL adapter *)

MaxSqlRuns == 4

(* the queries a candidate submits: the plain select, selects after         *)
(* changing the table, a script that selects nothing, a syntax error        *)
SqlCodes ==
    { <<"S">>, <<"D", "S">>, <<"I", "S">>, <<"D", "I", "S">>, <<"X">> }

SqlProblems ==
    { SqlProblem("trim", <<"C", "I">>,
        << SqlTestCase(FALSE, <<"6", "\n">>, FALSE, << >>, << >>),
           SqlTestCase(TRUE, << >>, TRUE, <<"I">>, <<"S">>),
           SqlTestCase(FALSE, << >>, TRUE, << >>, <<"S">>) >>),
      SqlProblem("token", <<"C", "N">>,
        << SqlTestCase(FALSE, << >>, TRUE, <<"I">>, <<"S">>),
           SqlTestCase(FALSE, <<"N", "U", "L", "L">>, TRUE, << >>, << >>) >>),
      (* a per-test setup that fails: the table exists already *)
      SqlProblem("trim", <<"C", "I">>,
        << SqlTestCase(FALSE, <<"6">>, FALSE, << >>, << >>),
           SqlTestCase(FALSE, <<"6">>, FALSE, <<"C">>, << >>),
           SqlTestCase(FALSE, <<"6">>, FALSE, << >>, << >>) >>),
      (* an author's query that fails *)
      SqlProblem("trim", <<"C", "I">>,
        << SqlTestCase(FALSE, << >>, TRUE, << >>, <<"X">>),
           SqlTestCase(FALSE, <<"6">>, FALSE, << >>, << >>) >>) }

(* the argument of the runSql call in flight: handleSubmit's userRes and    *)
(* expRes calls                                                             *)
SqlArgs ==
    [ globalSetup |-> problem.sqlGlobalSetup,
      perTestSetup |-> problem.testCases[idx].sqlSetup,
      query |-> IF pc = "sqlUser" THEN checkedCode
                ELSE problem.testCases[idx].sqlQuery ]

(* the runSql call of a submit settles *)
RunSqlCompletes ==
    /\ handler = "submit"
    /\ pc \in {"sqlUser", "sqlExpected"}
    /\ UNCHANGED <<rateLimitCheck, checkedCode>>
    /\ received' = received + 1
    /\ LET r == runSql(SqlArgs, database)
           out == [ok |-> r.ok,
                   text |-> IF r.ok THEN formatRows(r.rows) ELSE << >>,
                   message |-> r.message]
       IN  /\ database' = r.db
           /\ sqlRuns' = Append(sqlRuns, [args |-> SqlArgs, out |-> out, case |-> idx,
                                          author |-> pc = "sqlExpected"])
           /\ (\E applied \in {IF pc = "sqlUser" THEN handleSubmitSqlUser(Cur, out)
                    ELSE handleSubmitSqlExpected(Cur, out)} : Apply(applied))

(* the Submit button, clicked while the model has runs left *)
handleSubmitSql ==
    /\ Len(sqlRuns) < MaxSqlRuns
    /\ handleSubmit

(* the editor's onChange: setCode *)
setSqlCode ==
    /\ \E c \in SqlCodes : c # code /\ code' = c
    /\ isInCooldown' = InCooldown(state, now)
    /\ UNCHANGED <<now, ticks, checkerVars, strategyVars, sqlVars, limiterVars, problem, isRunning,
                   consoleOutput, consoleError, toast, handler, pc, idx, passedCount,
                   actualRaw, executed, perCaseLog, received, serviceVars>>

InitSqlPage ==
    /\ InitHook
    /\ InitService
    /\ StrategyIdle
    /\ InitSql
    /\ CheckerIdle
    /\ InitPageWith(SqlProblems, SqlCodes)

NextSql ==
    \/ handleSubmitSql
    \/ RunSqlCompletes
    \/ setSqlCode

SpecSql == InitSqlPage /\ [][NextSql]_vars

----------------------------------------------------------------------------
(* The checker used on its own: the comparison of any output with any      *)
(* expected output under any checker configuration                         *)

(* outputs and expected outputs: empty and blank texts, texts differing in *)
(* outer and in inner whitespace and in case, token lists of different     *)
(* lengths, decimal literals near and at the tolerances, and tokens that   *)
(* are no numbers                                                          *)
Texts ==
    { << >>, <<" ">>, <<"\n">>,
      <<"6">>, <<"6", "\n">>, <<" ", "6">>, <<"7">>,
      <<"6", " ", "7">>, <<"6", " ", " ", "7">>, <<"6", "\n", "7">>,
      <<"a">>, <<"A">>, <<"a", " ", "6">>, <<"-">>,
      <<"1", " ", "2", " ", "3">>, <<"1", " ", "2">>,
      <<"0">>, <<"1">>, <<"1", ".", "0">>, <<"1", ".">>, <<"+", "1">>,
      <<"1", ".", "0", "0", "0", "0", "0", "0", "1">>,
      <<"1", ".", "0", "1">>, <<"1", ".", "5">>,
      <<"0", ".", "0", "0", "0", "0", "0", "1">>,
      <<"0", ".", "0", "0", "0", "0", "0", "1", "1">>,
      <<"1", ".", "5", " ", "a">>, <<"1", " ", "a">>, <<"1", ".", "5", " ", "A">> }

(* checker_kind: unset, the four kinds, and 'custom', which the switch     *)
(* does not know                                                           *)
CheckerKinds == {"", "exact", "trim", "token", "float_tolerance", "custom"}

(* checker_float_tolerance: unset, 0 and 0.5 *)
Tolerances == {Undefined, Num(0), Num(5 * Pow10(FractionDigits - 1))}

CheckerProblems ==
    { [ Problem("algorithm", k, ci, << >>) EXCEPT !.checker_float_tolerance = t ] :
        k \in CheckerKinds, ci \in BOOLEAN, t \in Tolerances }

(* handleSubmit, algorithm branch: compare(result.output || '', expectedOutput) *)
CompareAlgorithm ==
    /\ compared.called = "none"
    /\ \E output \in {Str(compared.actual)}
                       \cup (IF compared.actual = << >> THEN {Undefined} ELSE {}) :
         LET actualRaw0 == IF Truthy(output) THEN output.s ELSE << >>
         IN  compared' = [ compared EXCEPT
                             !.called = "algorithm",
                             !.result = compare(compared.problem, actualRaw0,
                                                compared.expected) ]
    /\ UNCHANGED <<now, ticks, limiterVars, pageVars, serviceVars, strategyVars, sqlVars>>

(* handleSubmit, SQL branch: compare(formatRows(userRes.rows), expectedRaw) *)
CompareSql ==
    /\ compared.called = "none"
    /\ compared' = [ compared EXCEPT
                       !.called = "sql",
                       !.result = compare(compared.problem, compared.actual,
                                          compared.expected) ]
    /\ UNCHANGED <<now, ticks, limiterVars, pageVars, serviceVars, strategyVars, sqlVars>>

(* a checker configuration, an output and an expected output, not yet      *)
(* compared                                                                *)
InitChecker ==
    /\ InitHook
    /\ InitService
    /\ StrategyIdle
    /\ InitSql
    /\ compared \in [ called : {"none"}, problem : CheckerProblems, actual : Texts,
                      expected : Texts, result : {FALSE} ]
    /\ InitPage
    /\ problem = Problem("algorithm", "token", FALSE, << >>)
    /\ code = <<"A", "a">>

NextChecker == CompareAlgorithm \/ CompareSql

SpecChecker == InitChecker /\ [][NextChecker]_vars

----------------------------------------------------------------------------
(* The strategies used on their own: any caller of isAvailable and execute *)

InitStrategies ==
    /\ InitHook
    /\ InitService
    /\ InitPage
    /\ problem = Problem("algorithm", "token", FALSE, << >>)
    /\ code = <<"A", "a">>
    /\ InitStrategy
    /\ InitSql
    /\ CheckerIdle

NextStrategies ==
    \/ CallIsAvailable
    \/ IsAvailableFetched
    \/ CallExecute
    \/ ExecuteFetched

SpecStrategies == InitStrategies /\ [][NextStrategies]_vars

----------------------------------------------------------------------------
(* Properties of the submit loop *)

(* the test cases the candidate's code was sent for, in the order sent *)
SentCases ==
    LET user == SelectSeq(executed, LAMBDA e : e.to # "runSql author")
    IN  [k \in 1..Len(user) |-> user[k].case]

(* the lines of the transcript that report one test case *)
CaseLines ==
    SelectSeq(consoleOutput,
              LAMBDA l : l.line \in {"passed", "failed", "hidden failed"})

SummaryLines ==
    SelectSeq(consoleOutput, LAMBDA l : l.line \in {"accepted", "summary"})

SubmitReturned == handler = "submit" /\ pc = "idle"

(* the SQL run raised: the catch block ran instead of the code after the loop *)
SubmitThrew == SubmitReturned /\ consoleError = "SQL error"

(* C1: in a submit the test cases are sent in the declared order, test     *)
(* case i only after the i-1 cases before it passed, and once a case has   *)
(* failed no later case is sent: when the submit returns short of a full   *)
(* pass, the cases judged are exactly 1 .. passedCount + 1, the last one   *)
(* failed, and nothing beyond it was sent; a mismatch leaves one           *)
(* transcript line per case judged.                                        *)
C1_EarlyAbort ==
    handler = "submit" =>
        /\ SentCases = [k \in 1..Len(SentCases) |-> k]
        /\ Len(SentCases) <= totalCases
        /\ \A k \in 1..Len(executed) : executed[k].case <= passedCount + 1
        /\ \A k \in 1..Len(perCaseLog) :
              /\ perCaseLog[k].index = k
              /\ perCaseLog[k].passed <=> k <= passedCount
        /\ (pc = "idle" /\ passedCount < totalCases) =>
              /\ Len(perCaseLog) = passedCount + 1
              /\ Len(SentCases) <= passedCount + 1
              /\ consoleError = "" => Len(CaseLines) = passedCount + 1

(* C1 witness: three test cases, the second one failed, two were sent *)
C1_Witness ==
    /\ SubmitReturned
    /\ totalCases = 3
    /\ passedCount = 1
    /\ Len(perCaseLog) = 2
    /\ SentCases = <<1, 2>>
    /\ Len(CaseLines) = 2

(* C2: when the code after the loop has run, the last transcript line is   *)
(* the accepted line if passedCount = totalCases and the N/total line with *)
(* N = passedCount < totalCases otherwise, it is the only summary line,    *)
(* passedCount is the number of cases the checker accepted, and            *)
(* passedCount never exceeds totalCases.                                   *)
C2_Verdict ==
    handler = "submit" =>
        /\ passedCount <= totalCases
        /\ passedCount =
             Len(SelectSeq(perCaseLog, LAMBDA e : e.passed))
        /\ (SubmitReturned /\ ~SubmitThrew) =>
              /\ Len(SummaryLines) = 1
              /\ consoleOutput[Len(consoleOutput)] =
                   IF passedCount = totalCases
                   THEN [line |-> "accepted", total |-> totalCases]
                   ELSE [line |-> "summary", passed |-> passedCount,
                         total |-> totalCases]
              /\ passedCount = totalCases =>
                   /\ \A k \in 1..Len(perCaseLog) : perCaseLog[k].passed
                   /\ Len(perCaseLog) = totalCases

(* C2 witness: a submit that ended Failed after passing some case *)
C2_Witness ==
    /\ SubmitReturned
    /\ ~SubmitThrew
    /\ passedCount = 2
    /\ totalCases = 3
    /\ consoleOutput[Len(consoleOutput)].line = "summary"

----------------------------------------------------------------------------
(* Properties of the rate limiter *)

WindowUnexpired == now - state.windowStart <= windowMs

(* C3, as the spec states it: after two allowed checks, each recorded, the *)
(* next check in the same window is denied with a positive wait time and   *)
(* starts the cooldown, whatever code it is given.                         *)
C3_ThirdDeniedWithWait ==
    [][ ( /\ CallCheckRateLimit
          /\ recordCalls = 1
          /\ state.attempts >= maxAttempts
          /\ WindowUnexpired )
        => /\ ~rateLimitCheck'.allowed
           /\ rateLimitCheck'.waitTime > 0
           /\ state'.cooldownUntil = now + cooldownMs ]_vars

(* C3, amended: once attempts >= maxAttempts in an unexpired window every  *)
(* check is denied; the check that follows the recorded attempts reports   *)
(* a positive wait time and sets cooldownUntil = now + cooldownMs when its *)
(* code's fingerprint differs from the last recorded one, and is otherwise *)
(* denied as a duplicate with no wait time and no cooldown.                *)
C3_ThirdDenied ==
    [][ ( /\ CallCheckRateLimit
          /\ state.attempts >= maxAttempts
          /\ WindowUnexpired )
        => /\ ~rateLimitCheck'.allowed
           /\ ( recordCalls = 1 /\ lastCodeHash # hashCode(checkedCode') )
                => /\ rateLimitCheck'.waitTime = CeilSeconds(cooldownMs)
                   /\ rateLimitCheck'.waitTime > 0
                   /\ state'.cooldownUntil = now + cooldownMs
           /\ ( recordCalls = 1 /\ lastCodeHash = hashCode(checkedCode') )
                => /\ rateLimitCheck'.waitTime = 0
                   /\ state' = state ]_vars

(* C3 witness: the check after two recorded attempts started the cooldown *)
C3_Witness ==
    /\ rateLimitCheck.message = "Too many submissions"
    /\ rateLimitCheck.waitTime = 60
    /\ state.attempts = maxAttempts
    /\ state.cooldownUntil = now + cooldownMs
    /\ recordCalls = 0

(* C4: a check of code whose fingerprint equals the stored one is denied,  *)
(* whatever the attempt count and the age of the window, and the stored    *)
(* fingerprint changes only when recordAttempt stores another code's.      *)
C4_DuplicateDenied ==
    /\ [][ (CallCheckRateLimit /\ lastCodeHash = hashCode(checkedCode'))
           => ~rateLimitCheck'.allowed /\ lastCodeHash' = lastCodeHash ]_vars
    /\ [][ lastCodeHash' # lastCodeHash
           => CallRecordAttempt /\ lastCodeHash' = hashCode(checkedCode) ]_vars

(* C4 witness: a duplicate denied in an expired window with attempts left, *)
(* for code that differs from the recorded one but has its fingerprint     *)
C4_Witness ==
    /\ ~rateLimitCheck.allowed
    /\ rateLimitCheck.message = "Please modify your code"
    /\ recordCalls = 0
    /\ now - state.windowStart > windowMs
    /\ state.attempts < maxAttempts
    /\ checkedCode = <<"B", "B">>
    /\ lastCodeHash = hashCode(<<"A", "a">>)

----------------------------------------------------------------------------
(* Properties of the handlers *)

(* C5: a submit that passed the rate-limit check has recorded the attempt  *)
(* exactly once when it returns, however the judging ended.                *)
C5_RecordedOnce ==
    /\ recordCalls <= 1
    /\ (SubmitReturned /\ rateLimitCheck.allowed) =>
          /\ recordCalls = 1
          /\ lastCodeHash = hashCode(checkedCode)

(* C6: a submit the limiter denies starts nothing: no request is sent, no  *)
(* attempt is recorded, the running flag and the console are unchanged,    *)
(* and the denial is shown as a toast carrying the limiter's message.      *)
C6_DeniedStartsNothing ==
    [][ (handleSubmit /\ ~rateLimitCheck'.allowed)
        => /\ UNCHANGED <<isRunning, consoleOutput, consoleError, handler, pc,
                          idx, passedCount, executed, perCaseLog, lastCodeHash,
                          serviceVars>>
           /\ state'.attempts = state.attempts
           /\ recordCalls' = 0
           /\ toast' = [title |-> "Rate Limited",
                        description |-> rateLimitCheck'.message] ]_vars

(* C6 witness: a submit denied for the attempt limit, after a run whose    *)
(* transcript is still on the console                                      *)
C6_Witness ==
    /\ ~rateLimitCheck.allowed
    /\ rateLimitCheck.message = "Too many submissions"
    /\ toast.title = "Rate Limited"
    /\ checkedCode = code
    /\ ~isRunning
    /\ handler = "run"
    /\ consoleOutput # << >>

(* a step of the Run handler *)
RunStep ==
    \/ handleRun
    \/ /\ handler = "run"
       /\ (IsAvailableReturns \/ StrategyExecuteReturns \/ RunSqlReturns)

(* C7: no step of a Run changes the limiter (attempts, windowStart,        *)
(* cooldownUntil, the stored fingerprint) or calls it, and Run is enabled  *)
(* whenever nothing is running, whatever the limiter's state.              *)
C7_RunLeavesLimiter ==
    /\ [][ RunStep => UNCHANGED <<state, lastCodeHash, rateLimitCheck,
                                  checkedCode, recordCalls>> ]_vars
    /\ [](~isRunning => ENABLED handleRun)

(* C7 witness: a run in flight while the limiter is in cooldown and the    *)
(* editor holds the code submitted last                                    *)
C7_Witness ==
    /\ handler = "run"
    /\ pc # "idle"
    /\ InCooldown(state, now)
    /\ lastCodeHash = hashCode(code)
    /\ executed # << >>

Last(seq) == seq[Len(seq)]

(* C8: only a failure of a test case that is not hidden puts expected and  *)
(* actual text on the transcript; every other line carries no text of a    *)
(* test case, and a hidden mismatch is reported by the bare line.          *)
C8_HiddenNotRevealed ==
    handler = "submit" =>
        /\ \A k \in 1..Len(consoleOutput) :
              IF consoleOutput[k].line = "failed"
              THEN /\ perCaseLog # << >>
                   /\ ~Last(perCaseLog).passed
                   /\ ~problem.testCases[Last(perCaseLog).index].isHidden
              ELSE DOMAIN consoleOutput[k] \subseteq {"line", "passed", "total"}
        /\ ( /\ pc = "idle"
             /\ consoleError = ""
             /\ perCaseLog # << >>
             /\ ~Last(perCaseLog).passed
             /\ problem.testCases[Last(perCaseLog).index].isHidden )
           => Last(CaseLines) = [line |-> "hidden failed"]

(* C8 witness: the hidden second case mismatched after the first passed *)
C8_Witness ==
    /\ SubmitReturned
    /\ consoleError = ""
    /\ Len(perCaseLog) = 2
    /\ ~Last(perCaseLog).passed
    /\ problem.testCases[2].isHidden
    /\ problem.testCases[2].expectedOutput = Seven
    /\ Last(CaseLines) = [line |-> "hidden failed"]

----------------------------------------------------------------------------
(* Properties of the execution service *)

(* a handler calls executionService.execute *)
ExecuteCalled == handleRun \/ handleSubmit \/ StrategyExecuteReturns

SelectionFails ==
    /\ IsAvailableReturns
    /\ probing = Len(strategies)
    /\ ~Last(probes').answer
    /\ currentStrategy = 0

NoneAvailable ==
    /\ probing = 0
    /\ probes # << >>
    /\ \A k \in 1..Len(probes) : ~probes[k].answer
    /\ currentStrategy = 0

(* C10: when no strategy reports available, execute returns the no-backend *)
(* result: no request is sent to a strategy, the handler returns with that *)
(* error on the console, and a submit ends with the attempt recorded,      *)
(* passedCount 0, its first test case failed and the 0/total summary.      *)
C10_NoBackend ==
    [][ SelectionFails
        => /\ NoneAvailable'
           /\ pc' = "idle"
           /\ ~isRunning'
           /\ consoleError' = "No execution backend available"
           /\ executed' = << >>
           /\ handler = "submit" =>
                 /\ passedCount' = 0
                 /\ recordCalls' = 1
                 /\ perCaseLog' = <<[index |-> 1, passed |-> FALSE]>>
                 /\ Last(consoleOutput') =
                      [line |-> "summary", passed |-> 0, total |-> totalCases] ]_vars

(* C10 witness: a submit of three test cases with both strategies down *)
C10_Witness ==
    /\ NoneAvailable
    /\ Len(probes) = 2
    /\ handler = "submit"
    /\ totalCases = 3
    /\ pc = "idle"
    /\ consoleError = "No execution backend available"
    /\ executed = << >>

----------------------------------------------------------------------------
(* Properties of the strategies *)

ExecuteReturned == called[2] = "execute" /\ ~awaiting
IsAvailableReturned == called[2] = "isAvailable" /\ ~awaiting

(* returned is an ExecutionResult, not a thrown value *)
IsExecutionResult(v) == DOMAIN v = {"success", "output", "error", "status"}

IsRuntimeError(v) ==
    /\ ~v.success
    /\ v.status = "runtime_error"
    /\ v.error.t = "string"
    /\ v.error.s # << >>

(* the fetch failed: network error, non-OK status, or a body that does not parse *)
TransportFailure(resp) ==
    \/ resp.kind = "reject"
    \/ resp.kind = "response" /\ (~resp.ok \/ resp.body = Unparseable)

IsStringValue(v) == v.t = "string"
IsNumberValue(v) == v.t = "number"

(* a body as the Piston API documents it: run with a numeric code, text    *)
(* stdout and stderr and a signal that is null or text; compile, when      *)
(* present, of the same kind                                               *)
PistonWellFormed(body) ==
    /\ body.t = "object"
    /\ LET run == Prop(body, "run")
           compile == Prop(body, "compile")
       IN  /\ run.t = "object"
           /\ IsNumberValue(Prop(run, "code"))
           /\ IsStringValue(Prop(run, "stdout"))
           /\ IsStringValue(Prop(run, "stderr"))
           /\ Prop(run, "signal").t \in {"null", "string"}
           /\ compile.t \in {"undefined", "object"}
           /\ compile.t = "object" =>
                /\ IsNumberValue(Prop(compile, "code"))
                /\ IsStringValue(Prop(compile, "stderr"))
                /\ IsStringValue(Prop(compile, "output"))

(* a body as the Judge0 API documents it: a status with a numeric id, and  *)
(* stdout, stderr and compile_output null or base64 text                   *)
Judge0WellFormed(body) ==
    /\ body.t = "object"
    /\ Prop(body, "status").t = "object"
    /\ IsNumberValue(Prop(Prop(body, "status"), "id"))
    /\ \A f \in {"stdout", "stderr", "compile_output"} :
         \/ Prop(body, f) = Null
         \/ IsStringValue(Prop(body, f)) /\ ~atob(Prop(body, f).s).thrown

Malformed(resp) ==
    /\ resp.kind = "response"
    /\ resp.ok
    /\ resp.body # Unparseable
    /\ IF called[1] = "Piston" THEN ~PistonWellFormed(resp.body)
       ELSE ~Judge0WellFormed(resp.body)

(* a body the mapping cannot read: null, or for Piston no run object where *)
(* the compile step does not already decide                                *)
Unreadable(resp) ==
    /\ resp.kind = "response"
    /\ resp.ok
    /\ resp.body # Unparseable
    /\ \/ resp.body = Null
       \/ /\ called[1] = "Piston"
          /\ NoProperties(Prop(resp.body, "run"))
          /\ ~Truthy(Prop(resp.body, "compile"))

(* C11, as stated: no strategy method throws; execute answers a network     *)
(* error, a non-OK status, an unparseable body and a malformed body with a  *)
(* runtime_error result carrying a message; isAvailable answers a failed    *)
(* fetch with false.                                                        *)
C11_MalformedDowngraded ==
    /\ ExecuteReturned =>
         /\ IsExecutionResult(returned)
         /\ (fetchCalls = 1 /\ (TransportFailure(fetched) \/ Malformed(fetched)))
              => IsRuntimeError(returned)
    /\ IsAvailableReturned =>
         /\ returned \in BOOLEAN
         /\ (fetchCalls = 1 /\ (fetched.kind = "reject" \/ ~fetched.ok))
              => returned = FALSE

(* C11, amended: no strategy method throws, execute always returns an       *)
(* ExecutionResult and isAvailable a boolean; a network error, a non-OK     *)
(* status, an unparseable body and a body that cannot be read give a        *)
(* runtime_error result carrying a message; isAvailable answers a failed    *)
(* fetch with false.                                                        *)
C11_FailuresDowngraded ==
    /\ ExecuteReturned =>
         /\ IsExecutionResult(returned)
         /\ (fetchCalls = 1 /\ (TransportFailure(fetched) \/ Unreadable(fetched)))
              => IsRuntimeError(returned)
    /\ IsAvailableReturned =>
         /\ returned \in BOOLEAN
         /\ (fetchCalls = 1 /\ (fetched.kind = "reject" \/ ~fetched.ok))
              => returned = FALSE

(* Judge0's execute has returned a runtime_error for a body that does not parse *)
C11_Witness ==
    /\ ExecuteReturned
    /\ called[1] = "Judge0"
    /\ fetchCalls = 1
    /\ fetched.kind = "response" /\ fetched.ok /\ fetched.body = Unparseable
    /\ IsRuntimeError(returned)

----------------------------------------------------------------------------
(* Properties of the order of judging *)

(* requests sent and not yet answered *)
InFlight == Len(executed) - received

(* this step sends a request of a submit *)
SendsRequest ==
    /\ handler' = "submit"
    /\ Len(executed') > 0
    /\ executed' # executed

(* C12: during a submit at most one execute or runSql call is in flight,    *)
(* and a request goes out only when every earlier one has been answered;    *)
(* the request for test case k > 1 goes out in the step that judged case    *)
(* k - 1 as passed, the author's query of a case when the user's query of   *)
(* that case has been answered.                                             *)
C12_OneAtATime ==
    /\ [](InFlight \in {0, 1})
    /\ [][ SendsRequest =>
            LET r == Last(executed')
            IN  /\ executed' = Append(IF Len(executed') = 1 THEN << >> ELSE executed, r)
                /\ received' = Len(executed') - 1
                /\ (r.to # "runSql author" /\ r.case > 1) =>
                     /\ Len(perCaseLog') = r.case - 1
                     /\ Last(perCaseLog') = [index |-> r.case - 1, passed |-> TRUE]
                     /\ perCaseLog' # perCaseLog
                /\ r.to = "runSql author" =>
                     /\ executed[Len(executed)] = [case |-> r.case, to |-> "runSql"]
                     /\ received' = received + 1 ]_vars

(* the request for the third test case is in flight, two answered before it *)
C12_Witness ==
    /\ handler = "submit"
    /\ pc = "exec"
    /\ idx = 3
    /\ Len(executed) = 3
    /\ received = 2
    /\ InFlight = 1

----------------------------------------------------------------------------
(* Properties of the limiter's window *)

(* the submissions: the times of the allowed checks that were recorded *)
Submissions ==
    LET done == SelectSeq(submitted, LAMBDA e : e.recorded)
    IN  [k \in 1..Len(done) |-> done[k].at]

(* no n + 1 submissions lie in an interval [a, a + windowMs) *)
AtMostPerInterval(n) ==
    \A i \in 1..Len(Submissions) :
        i + n <= Len(Submissions) =>
            Submissions[i + n] - Submissions[i] >= windowMs

(* the submissions allowed since the window started *)
InWindow == {k \in 1..Len(Submissions) : Submissions[k] >= state.windowStart}

(* C13, as stated: the window slides; any interval of length windowMs holds *)
(* at most maxAttempts submissions.                                         *)
C13_SlidingWindow == AtMostPerInterval(maxAttempts)

(* C13, amended: the window is fixed, restarted by the first check after it *)
(* expired; at most maxAttempts submissions are allowed per window, attempts*)
(* counts them, and any interval of length windowMs holds at most           *)
(* 2 * maxAttempts submissions.                                             *)
C13_FixedWindow ==
    /\ state.attempts <= maxAttempts
    /\ Cardinality(InWindow) = state.attempts
    /\ AtMostPerInterval(2 * maxAttempts)

(* a third submission was allowed less than windowMs after the first,       *)
(* in a window of its own                                                   *)
C13_Witness ==
    /\ Len(Submissions) = 5
    /\ Submissions[3] - Submissions[1] < windowMs
    /\ Submissions[5] - Submissions[1] < 2 * windowMs
    /\ state.attempts = 1
    /\ Cardinality(InWindow) = 1

(* the cooldown is running *)
CooldownRunning == state.cooldownUntil # 0 /\ now < state.cooldownUntil

(* C14: while now < cooldownUntil every check is denied whatever its code,  *)
(* before the duplicate and the window tests, changing nothing; the wait    *)
(* time reported is the remaining cooldown in seconds rounded up, at        *)
(* least 1.                                                                 *)
C14_CooldownDenies ==
    [][ (CallCheckRateLimit /\ CooldownRunning)
        => /\ ~rateLimitCheck'.allowed
           /\ rateLimitCheck'.message = "Rate limited"
           /\ rateLimitCheck'.waitTime >= 1
           /\ rateLimitCheck'.waitTime * 1000 >= state.cooldownUntil - now
           /\ (rateLimitCheck'.waitTime - 1) * 1000 < state.cooldownUntil - now
           /\ state' = state
           /\ lastCodeHash' = lastCodeHash ]_vars

(* a check of new code in an expired window was denied by the cooldown,    *)
(* 59999 ms of it left reported as 60 s                                    *)
C14_Witness ==
    /\ CooldownRunning
    /\ state.cooldownUntil - now = 59999
    /\ rateLimitCheck.message = "Rate limited"
    /\ rateLimitCheck.waitTime = 60
    /\ lastCodeHash # hashCode(checkedCode)
    /\ now - state.windowStart > windowMs

(* C15: out of cooldown, for code that is no duplicate, a check in an       *)
(* expired window is allowed and restarts the window: attempts = 0,         *)
(* windowStart = now, cooldownUntil cleared, whatever attempts was; the     *)
(* recordAttempt that follows leaves attempts = 1.                          *)
C15_ExpiredWindowResets ==
    /\ [][ ( /\ CallCheckRateLimit
             /\ ~CooldownRunning
             /\ lastCodeHash # hashCode(checkedCode')
             /\ now - state.windowStart > windowMs )
           => /\ rateLimitCheck'.allowed
              /\ state' = [attempts |-> 0, windowStart |-> now, cooldownUntil |-> 0]
         ]_vars
    /\ [][ ( /\ CallRecordAttempt
             /\ Len(submitted) > 0
             /\ Last(submitted).at = state.windowStart
             /\ Cardinality(InWindow) = 0 )
           => state' = [attempts |-> 1, windowStart |-> state.windowStart,
                        cooldownUntil |-> 0] ]_vars

(* the third submission restarted a window that had two attempts, and was   *)
(* recorded as the first attempt of the new window                          *)
C15_Witness ==
    /\ Len(Submissions) = 3
    /\ Submissions[2] < state.windowStart
    /\ Submissions[3] = state.windowStart
    /\ state.windowStart > 1 + cooldownMs
    /\ state = [attempts |-> 1, windowStart |-> state.windowStart, cooldownUntil |-> 0]
    /\ recordCalls = 1

----------------------------------------------------------------------------
(* Properties of the SQL adapter *)

SqlRunFailed ==
    /\ Len(sqlRuns') = Len(sqlRuns) + 1
    /\ ~sqlRuns'[Len(sqlRuns')].out.ok

----------------------------------------------------------------------------
(* Properties of Piston's mapping *)

(* Piston's execute has returned for a body it could read: an object with  *)
(* a run object whose stderr, when there is one, is text                   *)
PistonMapped ==
    /\ ExecuteReturned
    /\ called[1] = "Piston"
    /\ fetched.kind = "response"
    /\ fetched.ok
    /\ fetched.body.t = "object"
    /\ Prop(fetched.body, "run").t = "object"
    /\ Prop(Prop(fetched.body, "run"), "stderr").t \in {"undefined", "null", "string"}

(* a text with a character that is not whitespace *)
HasText(v) ==
    /\ v.t = "string"
    /\ \E i \in 1..Len(v.s) : v.s[i] \notin Whitespace

(* C18: Piston's mapping goes by precedence. A compile step that exited    *)
(* nonzero gives compile_error with the compiler's stderr, or its output   *)
(* when stderr is empty, whatever the run fields are; else a run that did  *)
(* not exit zero and has a signal gives time_limit for SIGKILL and         *)
(* runtime_error for another signal; else a stderr with a non-whitespace   *)
(* character gives runtime_error with stdout as output, the exit code      *)
(* being zero or not; else the result is accepted with stdout as output.   *)
C18_PistonPrecedence ==
    PistonMapped =>
      LET compile == Prop(fetched.body, "compile")
          run == Prop(fetched.body, "run")
          stdout == Prop(run, "stdout")
          stderr == Prop(run, "stderr")
          signal == Prop(run, "signal")
          compileFailed == compile.t = "object" /\ Prop(compile, "code") # Num(0)
          signalled == /\ Prop(run, "code") # Num(0)
                       /\ signal.t = "string"
                       /\ signal.s # << >>
      IN  IF compileFailed
          THEN /\ ~returned.success
               /\ returned.status = "compile_error"
               /\ returned.error =
                    IF Prop(compile, "stderr") \in {Undefined, Null, Str(<< >>)}
                    THEN Prop(compile, "output")
                    ELSE Prop(compile, "stderr")
          ELSE IF signalled
          THEN /\ ~returned.success
               /\ returned.status =
                    IF signal.s = <<"S", "I", "G", "K", "I", "L", "L">>
                    THEN "time_limit" ELSE "runtime_error"
               /\ returned.error.t = "string"
               /\ returned.error.s # << >>
          ELSE IF HasText(stderr)
          THEN /\ ~returned.success
               /\ returned.status = "runtime_error"
               /\ returned.output = stdout
               /\ returned.error = stderr
          ELSE /\ returned.success
               /\ returned.status = "accepted"
               /\ returned.output = stdout
               /\ returned.error = Undefined

(* a run that exited zero with no signal, printed 6 and wrote err to       *)
(* stderr was answered runtime_error with 6 as output                      *)
C18_Witness ==
    /\ PistonMapped
    /\ LET run == Prop(fetched.body, "run")
       IN  /\ ~Truthy(Prop(fetched.body, "compile"))
           /\ Prop(run, "code") = Num(0)
           /\ Prop(run, "signal") = Null
           /\ Prop(run, "stderr") = Str(<<"e", "r", "r">>)
           /\ Prop(run, "stdout") = Str(<<"6">>)
    /\ returned.status = "runtime_error"
    /\ returned.output = Str(<<"6">>)

----------------------------------------------------------------------------
(* Properties of Judge0's guard *)

(* Judge0's execute was called for a language without a judge0Id *)
Judge0Unmapped ==
    /\ called = <<"Judge0", "execute">>
    /\ request.language.judge0Id = Undefined

(* C19: called for a language that has no judge0Id, Judge0's execute has   *)
(* returned at once, sent no request to the backend, and its result is an  *)
(* error result: success false with a message, whatever the code and the   *)
(* input of the request.                                                   *)
C19_UnmappedLanguage ==
    Judge0Unmapped =>
      /\ ~awaiting
      /\ fetchCalls = 0
      /\ fetched = NoResponse
      /\ IsExecutionResult(returned)
      /\ ~returned.success
      /\ returned.status # "accepted"
      /\ returned.error.t = "string"
      /\ returned.error.s # << >>

(* execute called with the SQL language, which has no judge0Id, and code   *)
(* that base64 can encode                                                  *)
C19_Witness ==
    /\ Judge0Unmapped
    /\ request.language.name = <<"S", "Q", "L">>
    /\ request.code = <<"A", "a">>
    /\ fetchCalls = 0
    /\ ~returned.success

----------------------------------------------------------------------------
(* Properties of the results *)

(* C20: an ExecutionResult a strategy's execute returned, or the result    *)
(* the service gives with no backend, is never partially populated: with   *)
(* success true its output is defined, possibly the empty text, and its    *)
(* error is undefined; and success is true exactly when the status is      *)
(* accepted.                                                               *)
C20_NeverPartial ==
    /\ ~NoBackend.success /\ NoBackend.status # "accepted"
    /\ ExecuteReturned =>
         /\ returned.success =>
              /\ returned.output # Undefined
              /\ returned.error = Undefined
         /\ returned.success <=> returned.status = "accepted"

----------------------------------------------------------------------------
(* Properties of the checker *)

(* a comparison has been made under the checker kind k *)
Compared(k) == compared.called # "none" /\ compared.problem.checker_kind = k

(* the text as the comparison sees it: lower case when the problem is      *)
(* case-insensitive                                                        *)
Folded(text) ==
    IF compared.problem.checker_case_insensitive THEN toLowerCase(text) ELSE text

(* the text without its leading and trailing whitespace *)
Stripped(text) ==
    LET inked == { i \in 1..Len(text) : text[i] \notin Whitespace }
    IN  IF inked = {} THEN << >>
        ELSE SubSeq(text, CHOOSE i \in inked : \A j \in inked : i <= j,
                          CHOOSE i \in inked : \A j \in inked : j <= i)

(* the tokens of the text: its maximal runs of characters that are not     *)
(* whitespace, in order                                                    *)
TokensOf(text) ==
    LET starts == { i \in 1..Len(text) :
                      /\ text[i] \notin Whitespace
                      /\ i = 1 \/ text[i - 1] \in Whitespace }
        endOf(i) == CHOOSE j \in i..Len(text) :
                      /\ \A k \in i..j : text[k] \notin Whitespace
                      /\ j = Len(text) \/ text[j + 1] \in Whitespace
        nth(n) == CHOOSE i \in starts : Cardinality({ j \in starts : j < i }) = n - 1
    IN  [ n \in 1..Cardinality(starts) |-> SubSeq(text, nth(n), endOf(nth(n))) ]

Blank(text) == \A i \in 1..Len(text) : text[i] \in Whitespace

(* C21: with the checker kind exact, or none configured, and               *)
(* caseInsensitive false, the comparison accepts exactly the pairs of      *)
(* equal texts.                                                            *)
C21_ExactIsEquality ==
    ( (Compared("exact") \/ Compared(""))
      /\ ~compared.problem.checker_case_insensitive )
      => (compared.result <=> compared.actual = compared.expected)

(* with no checker kind configured, the output 6 was compared with the     *)
(* expected output 6 followed by a newline, and rejected                   *)
C21_Witness ==
    /\ Compared("")
    /\ ~compared.problem.checker_case_insensitive
    /\ compared.actual = <<"6">>
    /\ compared.expected = <<"6", "\n">>
    /\ ~compared.result

(* C22: with the checker kind trim the comparison accepts exactly the      *)
(* pairs of texts that are equal once their leading and trailing           *)
(* whitespace is removed, both in lower case when caseInsensitive; inner   *)
(* whitespace counts.                                                      *)
C22_TrimIsEqualityOfStripped ==
    Compared("trim")
      => (compared.result
            <=> Stripped(Folded(compared.actual)) = Stripped(Folded(compared.expected)))

(* under trim the output 6 was accepted for the expected output 6 followed *)
(* by a newline                                                            *)
C22_Witness ==
    /\ Compared("trim")
    /\ compared.actual = <<"6">>
    /\ compared.expected = <<"6", "\n">>
    /\ compared.result

(* C23: with the checker kind token the comparison accepts exactly the     *)
(* pairs of texts whose token sequences have the same length and the same  *)
(* token at every position, both in lower case when caseInsensitive.       *)
C23_TokenIsEqualityOfTokens ==
    Compared("token")
      => LET aT == TokensOf(Folded(compared.actual))
             eT == TokensOf(Folded(compared.expected))
         IN  compared.result
               <=> ( /\ Len(aT) = Len(eT)
                     /\ \A i \in 1..Len(aT) : aT[i] = eT[i] )

(* under token the output 1 2 3 was rejected for the expected output 1 2 *)
C23_Witness ==
    /\ Compared("token")
    /\ compared.actual = <<"1", " ", "2", " ", "3">>
    /\ compared.expected = <<"1", " ", "2">>
    /\ ~compared.result

(* the tolerance of the comparison, 1e-6 when none is configured *)
ToleranceOf(p) ==
    IF p.checker_float_tolerance = Undefined THEN Pow10(FractionDigits - 6)
    ELSE p.checker_float_tolerance.n

(* C24: with the checker kind float_tolerance the comparison takes the     *)
(* tokens as token does and accepts exactly when the token sequences have  *)
(* the same length and every pair of tokens at the same position is either *)
(* a pair of finite numbers at most the tolerance apart or a pair of equal *)
(* tokens; the tolerance is 1e-6 when none is configured.                  *)
C24_FloatTolerance ==
    Compared("float_tolerance")
      => LET aT == TokensOf(Folded(compared.actual))
             eT == TokensOf(Folded(compared.expected))
             tol == ToleranceOf(compared.problem)
         IN  compared.result
               <=> ( /\ Len(aT) = Len(eT)
                     /\ \A i \in 1..Len(aT) :
                          IF Number(aT[i]).finite /\ Number(eT[i]).finite
                          THEN abs(Number(aT[i]).v - Number(eT[i]).v) <= tol
                          ELSE aT[i] = eT[i] )

(* C30: with the checker kind float_tolerance an output that is empty or   *)
(* only whitespace is accepted only for an expected output that is empty   *)
(* or only whitespace.                                                     *)
C30_BlankOutput ==
    ( Compared("float_tolerance") /\ Blank(compared.actual) /\ compared.result )
      => Blank(compared.expected)

----------------------------------------------------------------------------
(* Properties of what the limiter's operations change *)

(* C25: a checkRateLimit call never changes the stored fingerprint and     *)
(* never raises attempts; a denied one leaves attempts and windowStart as  *)
(* they were and changes cooldownUntil only when the attempt limit is hit. *)
(* A recordAttempt call stores the fingerprint of its code and raises      *)
(* attempts by exactly 1, leaving the window and the cooldown.  So a check *)
(* of the code just checked and allowed, with no recordAttempt in between, *)
(* is not denied as a duplicate.                                           *)
C25_WhoChangesWhat ==
    [][ /\ CallCheckRateLimit =>
             /\ lastCodeHash' = lastCodeHash
             /\ state'.attempts <= state.attempts
             /\ ~rateLimitCheck'.allowed =>
                  /\ state'.attempts = state.attempts
                  /\ state'.windowStart = state.windowStart
                  /\ state'.cooldownUntil # state.cooldownUntil =>
                       /\ state.attempts >= maxAttempts
                       /\ state'.cooldownUntil = now + cooldownMs
             /\ ( rateLimitCheck.allowed /\ recordCalls = 0
                  /\ checkedCode' = checkedCode )
                  => rateLimitCheck'.message # "Please modify your code"
        /\ CallRecordAttempt =>
             /\ lastCodeHash' = hashCode(checkedCode)
             /\ state'.attempts = state.attempts + 1
             /\ state'.windowStart = state.windowStart
             /\ state'.cooldownUntil = state.cooldownUntil ]_vars

(* after one recorded attempt a check of another code was allowed: the     *)
(* attempts are still 1 and the fingerprint is still that of the recorded  *)
(* code                                                                    *)
C25_Witness ==
    /\ Len(submitted) = 2
    /\ submitted[1].recorded
    /\ ~submitted[2].recorded
    /\ rateLimitCheck.allowed
    /\ recordCalls = 0
    /\ state.attempts = 1
    /\ lastCodeHash # << >>
    /\ lastCodeHash # hashCode(checkedCode)

----------------------------------------------------------------------------
(* Properties of the running flag *)

----------------------------------------------------------------------------
(* Properties of the end of the cooldown *)

(* a check is made of code other than the code recorded last, with a       *)
(* cooldown set that is over                                               *)
CheckAfterCooldown ==
    /\ CallCheckRateLimit
    /\ state.cooldownUntil # 0
    /\ now >= state.cooldownUntil
    /\ lastCodeHash # hashCode(checkedCode')

(* C27, as stated: at any time at or after cooldownUntil a check of code   *)
(* other than the code recorded last is allowed.                           *)
C27_AllowedFromCooldownUntil ==
    [][ CheckAfterCooldown => rateLimitCheck'.allowed ]_vars

(* C27, amended: such a check is allowed at any time after cooldownUntil,  *)
(* and at cooldownUntil itself when the cooldown was set later than the    *)
(* window started; set at the very instant the window started, the check   *)
(* at cooldownUntil finds the window not yet expired, is denied and sets   *)
(* the cooldown again, and that cooldown ends with the window expired.     *)
C27_CooldownEnds ==
    [][ CheckAfterCooldown =>
          IF now > state.cooldownUntil
             \/ state.cooldownUntil > state.windowStart + cooldownMs
          THEN /\ rateLimitCheck'.allowed
               /\ state' = [attempts |-> 0, windowStart |-> now, cooldownUntil |-> 0]
          ELSE /\ ~rateLimitCheck'.allowed
               /\ state'.cooldownUntil = now + cooldownMs
               /\ state'.cooldownUntil > state'.windowStart + cooldownMs ]_vars

(* a check made at the very instant cooldownUntil was allowed *)
C27_Witness ==
    /\ submitted # << >>
    /\ LET latest == submitted[Len(submitted)]
       IN  /\ latest.cooldown # 0
           /\ latest.at = latest.cooldown
           /\ latest.at = now
    /\ rateLimitCheck.allowed
    /\ state = [attempts |-> 0, windowStart |-> now, cooldownUntil |-> 0]

----------------------------------------------------------------------------
(* Properties of the accepted status *)

(* C28: a strategy's execute returns success, or the status accepted, only *)
(* for a clean run the backend completed: for Piston the compile step, if  *)
(* there is one, and the run exited with code 0, without a signal and with *)
(* nothing on stderr; for Judge0 the status id is 3.                       *)
C28_AcceptedOnlyClean ==
    ( ExecuteReturned /\ (returned.success \/ returned.status = "accepted") )
      => /\ fetchCalls = 1
         /\ fetched.kind = "response"
         /\ fetched.ok
         /\ fetched.body.t = "object"
         /\ IF called[1] = "Piston"
            THEN LET compile == Prop(fetched.body, "compile")
                     run == Prop(fetched.body, "run")
                 IN  /\ compile.t = "object" => Prop(compile, "code") = Num(0)
                     /\ run.t = "object"
                     /\ Prop(run, "code") = Num(0)
                     /\ ~Truthy(Prop(run, "signal"))
                     /\ ~HasText(Prop(run, "stderr"))
            ELSE /\ Prop(fetched.body, "status").t = "object"
                 /\ Prop(Prop(fetched.body, "status"), "id") = Num(3)

----------------------------------------------------------------------------
(* Properties of the accepted verdict *)

(* the submit has ended with the line `All N test cases passed' *)
VerdictAccepted ==
    /\ handler = "submit"
    /\ pc = "idle"
    /\ consoleOutput # << >>
    /\ consoleOutput[Len(consoleOutput)].line = "accepted"

(* C29: a submit ends with the accepted verdict only if it executed at     *)
(* least one test case and the checker accepted its output.                *)
C29_AcceptedNeedsACase ==
    VerdictAccepted =>
      /\ executed # << >>
      /\ \E k \in 1..Len(perCaseLog) : perCaseLog[k].passed

====
